---------------------------- MODULE Spec2Model ----------------------------
(***************************************************************************)
(* Model of the carousel creator's text-layout and compositing engine      *)
(* (kripman21/ai_carrusel_creator).                                        *)
(*                                                                         *)
(* Conventions                                                             *)
(*  - A JavaScript string is a sequence of one-character strings.          *)
(*  - Every length (font size, width, height, coordinate) is an integer    *)
(*    number of 1/20 px (Unit units per pixel), so that the code's         *)
(*    factors 1.4, 0.07, 0.04 and its divisions by 2 are exact on the      *)
(*    inputs the model enumerates.  The lengths of one composite, which    *)
(*    are multiples of scale = 1080 / previewWidth, are integer numbers    *)
(*    of 1/(20 x den) px, den the denominator of the scale in lowest       *)
(*    terms (1 for the preview widths that divide 1080).                   *)
(***************************************************************************)
EXTENDS Integers, Sequences, FiniteSets, TLC

VARIABLES
    \* ---- markup parser / layout engine on one text (SpecText) ----
    text,        \* the raw text handed to parseStyledText
    maxWidth,    \* the maxWidth handed to getWrappedStyledTextMetrics
    parsedText,  \* result of parseStyledText, or Null before the call
    metrics,     \* result of getWrappedStyledTextMetrics, or Null before the call
    tpc,         \* position of the parse-then-wrap-then-draw pipeline
    drawn,       \* the fillText calls of drawStyledTextLines on the wrapped lines
    textFontSize, \* style.fontSize of the text pipeline
    heightNumber, \* the height getWrappedStyledTextMetrics returns, as a JavaScript number
    lineOffsets, \* i * lineHeight of each line drawStyledTextLines draws, as JavaScript numbers
    \* ---- text editor panel (SpecEditor) ----
    slides,      \* the slide list the panel renders (id, title, body)
    selection,   \* the panel's selection state, or NullRecord
    roundTrip,   \* observer: the last highlight toggle and what it started from
    \* ---- one call of createSlideCanvas (SpecCanvas) ----
    args,        \* slide, logo, logoSize, imageOverlay, aspectRatio, previewWidth: the
                 \* values passed to the call
    objects,     \* the objects the arguments refer to and those the call creates
    cpc,         \* where the call is: start, fonts, images, done
    canvas,      \* the canvas element created (width, height), or NullRecord
    ctx,         \* the 2D context's graphics state
    requests,    \* font loads and image loads started, in order
    ops,         \* drawing calls issued on the context, in order
    layout,      \* what the call measured (heights, startY, ...), or NullRecord
    env,         \* what the environment answered: context, fonts, images
    result,      \* pending, null, canvas or rejected (the promise's outcome)
    \* ---- the export drivers (SpecExport) ----
    deck,        \* App state: slides, logo, logoSize, imageOverlay, aspectRatio
    previewContainer,  \* previewContainerRef: mounted or not, and its width in px
    exports,     \* the exports done so far, each with what it rendered
    exportEnv,   \* the drawing surface and image loads the exports meet
    exportRuns,  \* the export handlers invoked so far: driver, position, files so far
    \* ---- scaleStyle in JavaScript numbers (SpecScale) ----
    scaleIn,     \* a style (lengths in px) and two scale factors
    scaleOut,    \* the style scaled by f2, and scaled by f1 then by f2 / f1
    \* ---- App state edited from the panel, and the style presets (SpecPreset) ----
    heap,        \* the JavaScript objects allocated so far; a reference is an index
    appSlides,   \* slides: id, title and references to the four style objects
    appLogo,     \* logo
    appLogoSize, \* logoSize
    appOverlay,  \* imageOverlayStyle: a reference
    appGlobal,   \* globalTitleStyle, globalBodyStyle, globalLayoutStyle: references
    presets,     \* presets: each holds references to its style objects
    activePresetId,
    saved,       \* observer: the values each preset ever made held when it was added
    lastApplied, \* observer: the preset handleApplyPreset applied last, when, and the CTAs before
    presetOps,   \* number of handler calls so far
    reads,       \* the FileReader reads handleImportPreset started and that have not settled
    \* ---- generation and regeneration (SpecSession) ----
    genSlides,   \* slides
    isLoading,   \* isLoading
    genError,    \* error
    genPc,       \* where handleGenerateCarousel is: "idle", "planning", "images"
    genInput,    \* what the running call read and uses later: image source, active preset,
                 \* global styles
    genImages,   \* the image promise of each planned slide
    decks,       \* number of slide lists built so far (the Date.now() of the ids)
    regens,      \* handleRegenerateImage calls waiting for generateImage
    regenLog,    \* observer: the regeneration requests and responses, in order
    calls,       \* number of handler calls so far
    imageSource, \* imageSource
    pexelsApiKey, \* pexelsApiKey, a sequence of characters
    modalSlide,  \* pexelsSearchModalSlide: the id of the slide, or NullRecord
    rendered,    \* the slides and isLoading of the render that was last committed
    \* ---- edits against regeneration responses (SpecRace) ----
    liveSlides, \* slides, the state of App
    panelSlides, \* the slides prop of the render the editor panel last committed
    inFlight, \* handleRegenerateImage calls waiting for generateImage
    raceLog, \* observer: the edits and responses applied, in order
    raceOps,\* number of handler calls so far
    \* ---- the two compositors side by side ----
    twinArgs, \* the slide, logo, overlay, aspect ratio and preview width both compositors get
    twinEnv, \* the drawing surface and the image loads both runs see
    sharedRun, \* where createSlideCanvas is, what it issued and how it settled
    inlinedRun,\* where generateSlideCanvas is, what it issued and how it settled
    \* ---- the all-slides export loop ----
    zipSlides, \* the slide list the export handler closed over: each slide's src
    zipRuns, \* the all-slides exports started so far: position, archive and event log
    zipInFlight \* the generateSlideCanvas calls that have not settled yet

textVars == <<text, maxWidth, parsedText, metrics, tpc, drawn, textFontSize, heightNumber, lineOffsets>>
editorVars == <<slides, selection, roundTrip>>

canvasVars == <<args, objects, cpc, canvas, ctx, requests, ops, layout, env, result>>

exportVars == <<deck, previewContainer, exports, exportEnv, exportRuns>>

scaleVars == <<scaleIn, scaleOut>>

presetVars ==
    <<heap, appSlides, appLogo, appLogoSize, appOverlay, appGlobal, presets, activePresetId,
      saved, lastApplied, presetOps, reads>>

sessionVars ==
    <<genSlides, isLoading, genError, genPc, genInput, genImages, decks, regens, regenLog,
      calls, imageSource, pexelsApiKey, modalSlide, rendered>>

raceVars == <<liveSlides, panelSlides, inFlight, raceLog, raceOps>>

twinVars == <<twinArgs, twinEnv, sharedRun, inlinedRun>>

zipVars == <<zipSlides, zipRuns, zipInFlight>>

vars == <<textVars, editorVars, canvasVars, exportVars, scaleVars, presetVars, sessionVars, raceVars, twinVars, zipVars>>

\* What each component leaves alone.
nonTextVars == <<editorVars, canvasVars, exportVars, scaleVars, presetVars, sessionVars, raceVars, twinVars, zipVars>>
nonEditorVars == <<textVars, canvasVars, exportVars, scaleVars, presetVars, sessionVars, raceVars, twinVars, zipVars>>
nonCanvasVars == <<textVars, editorVars, exportVars, scaleVars, presetVars, sessionVars, raceVars, twinVars, zipVars>>
nonExportVars == <<textVars, editorVars, canvasVars, scaleVars, presetVars, sessionVars, raceVars, twinVars, zipVars>>
nonScaleVars == <<textVars, editorVars, canvasVars, exportVars, presetVars, sessionVars, raceVars, twinVars, zipVars>>
nonPresetVars == <<textVars, editorVars, canvasVars, exportVars, scaleVars, sessionVars, raceVars, twinVars, zipVars>>
nonSessionVars == <<textVars, editorVars, canvasVars, exportVars, scaleVars, presetVars, raceVars, twinVars, zipVars>>
nonRaceVars == <<textVars, editorVars, canvasVars, exportVars, scaleVars, presetVars, sessionVars, twinVars, zipVars>>
nonTwinVars == <<textVars, editorVars, canvasVars, exportVars, scaleVars, presetVars, sessionVars, raceVars, zipVars>>
nonZipVars == <<textVars, editorVars, canvasVars, exportVars, scaleVars, presetVars, sessionVars, raceVars, twinVars>>

Null == "null"

\* null where the value, when there is one, is a record.
NullRecord == [null |-> TRUE]

(***************************************************************************)
(* Units and the measurement provider                                      *)
(***************************************************************************)
\* Units per pixel: tenths of a pixel (for 1.4, 75.6, 43.2), halved once more
\* (for the centring divisions by 2).
Unit == 2 * 10

Px(n) == n * Unit

\* ctx.measureText: the advance of one character in tenths of an em.  A space
\* is narrower than a letter, as in the proportional fonts the app offers.
Advance(c) == IF c = " " THEN 3 ELSE IF c = "*" THEN 4 ELSE 5

RECURSIVE SumAdvance(_)
SumAdvance(s) == IF s = <<>> THEN 0 ELSE Advance(Head(s)) + SumAdvance(Tail(s))

\* ctx.measureText(s).width with ctx.font set to fontSize (in units).
MeasureText(fontSize, s) == (SumAdvance(s) * fontSize) \div 10

(***************************************************************************)
(* JavaScript numbers                                                      *)
(***************************************************************************)
\* A JavaScript number is an IEEE-754 double.  A positive double is kept as
\* its 53-bit significand m and the exponent e of the significand's last bit:
\* value = m * 2^e.  A significand is held in four limbs of 14 bits, least
\* significant first; a product of two significands takes eight.

SignificandBits == 53

LimbBits == 2 * 7
Base == 2 ^ LimbBits

Zero == [m |-> << 0, 0, 0, 0 >>, e |-> 0]

\* Limb i of a number, 0 outside it.
Limb(x, i) == IF i >= 1 /\ i <= Len(x) THEN x[i] ELSE 0

\* The limbs of the number whose limb i holds columns[i] (any integer), from
\* limb i up, with the carry into limb i.
RECURSIVE Carried(_, _, _)
Carried(columns, i, carry) ==
    IF i > Len(columns)
    THEN (IF carry = 0 THEN <<>> ELSE << carry % Base >> \o Carried(columns, i, carry \div Base))
    ELSE << (columns[i] + carry) % Base >>
         \o Carried(columns, i + 1, (columns[i] + carry) \div Base)

\* The number of bits of a number: 0 for 0.
BitLength(x) ==
    IF \A i \in 1..Len(x) : x[i] = 0 THEN 0
    ELSE LET top == CHOOSE i \in 1..Len(x) : x[i] # 0 /\ \A j \in (i + 1)..Len(x) : x[j] = 0
         IN  LimbBits * (top - 1)
                 + (CHOOSE b \in 1..LimbBits : (2 ^ (b - 1)) <= x[top] /\ x[top] < (2 ^ b))

\* Bit i of a number, the last bit being bit 0.
BitAt(x, i) == (Limb(x, (i \div LimbBits) + 1) \div (2 ^ (i % LimbBits))) % 2

\* floor(x / 2^k), on n limbs.
ShiftRight(x, k, n) ==
    [j \in 1..n |->
        (Limb(x, (k \div LimbBits) + j) \div (2 ^ (k % LimbBits)))
            + (Limb(x, (k \div LimbBits) + j + 1) % (2 ^ (k % LimbBits)))
                  * (2 ^ (LimbBits - (k % LimbBits)))]

\* x * 2^k, on n limbs.
ShiftLeft(x, k, n) ==
    [j \in 1..n |->
        (Limb(x, j - (k \div LimbBits)) % (2 ^ (LimbBits - (k % LimbBits))))
                * (2 ^ (k % LimbBits))
            + (Limb(x, j - (k \div LimbBits) - 1) \div (2 ^ (LimbBits - (k % LimbBits))))]

\* x < y on numbers of as many limbs.
LessLimbs(x, y) == \E i \in 1..Len(x) : x[i] < y[i] /\ \A j \in (i + 1)..Len(x) : x[j] = y[j]

\* The significand m + 1 with its exponent: the next double above m * 2^e.
Successor(d) ==
    LET inc == Carried([d.m EXCEPT ![1] = @ + 1], 1, 0)
    IN  IF BitLength(inc) > SignificandBits
        THEN [m |-> ShiftRight(inc, 1, 4), e |-> d.e + 1]
        ELSE [m |-> inc, e |-> d.e]

\* The double nearest to x * 2^e (+ something below the last bit when
\* sticky), ties to even: IEEE-754 roundTiesToEven.
RoundToNearestEven(x, e, sticky) ==
    LET len == BitLength(x)
        k == len - SignificandBits
        keep == [m |-> ShiftRight(x, k, 4), e |-> e + k]
        below == sticky \/ \E i \in 0..(k - 2) : BitAt(x, i) = 1
        up == BitAt(x, k - 1) = 1 /\ (below \/ BitAt(x, k) = 1)
    IN  IF len <= SignificandBits
        THEN [m |-> ShiftLeft(x, SignificandBits - len, 4), e |-> e - (SignificandBits - len)]
        ELSE IF up THEN Successor(keep) ELSE keep

\* The double of a natural number (exact below 2^53).
DoubleOfNat(n) ==
    IF n = 0 THEN Zero
    ELSE RoundToNearestEven(<< n % Base, (n \div Base) % Base, n \div (Base * Base) >>, 0, FALSE)

\* x * y on doubles: the exact product, rounded once.
Mul(x, y) ==
    IF x = Zero \/ y = Zero THEN Zero
    ELSE RoundToNearestEven(
             Carried([c \in 1..7 |-> x.m[1] * Limb(y.m, c) + x.m[2] * Limb(y.m, c - 1)
                                         + x.m[3] * Limb(y.m, c - 2) + x.m[4] * Limb(y.m, c - 3)],
                     1, 0),
             x.e + y.e, FALSE)

\* Long division of significands, bit by bit: the remainder r (doubled at
\* every step), the divisor q, the quotient bits so far and the steps left.
RECURSIVE DivBits(_, _, _, _)
DivBits(r, q, quotient, n) ==
    IF n = 0 \/ Len(r) = 0 \/ Len(quotient) = 0 THEN [quotient |-> quotient, r |-> r]
    ELSE IF LessLimbs(r, q)
    THEN DivBits(ShiftLeft(r, 1, 4), q, ShiftLeft(quotient, 1, 4), n - 1)
    ELSE DivBits(ShiftLeft(Carried([i \in 1..4 |-> r[i] - q[i]], 1, 0), 1, 4), q,
                 [ShiftLeft(quotient, 1, 4) EXCEPT ![1] = @ + 1], n - 1)

\* x / y on positive doubles: the exact quotient, rounded once.  56 steps
\* give floor(x.m * 2^55 / y.m), of 55 or 56 bits, and what is left over.
Div(x, y) ==
    LET d == DivBits(x.m, y.m, Zero.m, SignificandBits + 3)
    IN  RoundToNearestEven(d.quotient, x.e - y.e - (SignificandBits + 2), d.r # Zero.m)

\* p / q for doubles holding the positive integers p and q.
Quotient(p, q) == Div(DoubleOfNat(p), DoubleOfNat(q))

\* x < y on doubles that are positive or zero.
Less(x, y) ==
    IF y = Zero THEN FALSE
    ELSE IF x = Zero THEN TRUE
    ELSE x.e < y.e \/ (x.e = y.e /\ LessLimbs(x.m, y.m))

\* The double k steps above d in the order of the doubles.
RECURSIVE Above(_, _)
Above(d, k) == IF k = 0 THEN d ELSE Above(Successor(d), k - 1)

\* d1 and d2 are at most n doubles apart.
WithinSteps(d1, d2, n) ==
    \/ d1 = d2
    \/ d1 # Zero /\ d2 # Zero /\ \E k \in 1..n : Above(d1, k) = d2 \/ Above(d2, k) = d1

(***************************************************************************)
(* parseStyledText                                                         *)
(***************************************************************************)
\* The line terminators of ECMAScript: line feed, carriage return, line
\* separator and paragraph separator.  The last two cannot be written in a
\* string here and go by their code points.
LineTerminators == {"\n", "\r", "U+2028", "U+2029"}

\* The closing asterisk of the lazy match /\*.*?\*/ that starts at the
\* asterisk at position i, or 0 when there is none: "." matches no line
\* terminator, so the next asterisk counts only if none lies before it.
RECURSIVE MatchEnd(_, _)
MatchEnd(s, j) ==
    IF j > Len(s) THEN 0
    ELSE IF s[j] \in LineTerminators THEN 0
    ELSE IF s[j] = "*" THEN j
    ELSE MatchEnd(s, j + 1)

\* text.split(/(\*.*?\*|\n)/g): the pieces between the matches and the
\* matches themselves (the capture group), in order, empty pieces included.
RECURSIVE SplitMarkup(_, _, _)
SplitMarkup(s, i, segStart) ==
    IF i > Len(s) THEN << SubSeq(s, segStart, Len(s)) >>
    ELSE IF s[i] = "\n"
         THEN << SubSeq(s, segStart, i - 1), << "\n" >> >> \o SplitMarkup(s, i + 1, i + 1)
    ELSE IF s[i] = "*" /\ MatchEnd(s, i + 1) # 0
         THEN LET q == MatchEnd(s, i + 1)
              IN  << SubSeq(s, segStart, i - 1), SubSeq(s, i, q) >> \o SplitMarkup(s, q + 1, q + 1)
    ELSE SplitMarkup(s, i + 1, segStart)

NonEmpty(p) == p # <<>>

\* part.startsWith('*') && part.endsWith('*')
StartsAndEndsWithStar(part) == part[1] = "*" /\ part[Len(part)] = "*"

\* part.slice(1, -1) as it would be if the asterisks were left in place.
SliceNothing(part) == part

\* part.slice(1, -1)
Slice1(part) == SubSeq(part, 2, Len(part) - 1)

\* The map callback of parseStyledText.
ClassifyPart(part) ==
    IF part = << "\n" >>
    THEN [text |-> <<>>, isHighlighted |-> FALSE, isNewline |-> TRUE]
    ELSE IF StartsAndEndsWithStar(part)
    THEN [text |-> Slice1(part), isHighlighted |-> TRUE, isNewline |-> FALSE]
    ELSE [text |-> part, isHighlighted |-> FALSE, isNewline |-> FALSE]

parseStyledText(s) ==
    IF s = <<>> THEN <<>>
    ELSE LET parts == SelectSeq(SplitMarkup(s, 1, 1), NonEmpty)
         IN  [k \in 1..Len(parts) |-> ClassifyPart(parts[k])]

(***************************************************************************)
(* renderHighlightedText (src/src/components/Carousel.tsx)                 *)
(***************************************************************************)
\* text.split('*'): the stretches between asterisks, empty ones included.
RECURSIVE SplitOnAsterisk(_, _)
SplitOnAsterisk(s, current) ==
    IF s = <<>> THEN << current >>
    ELSE IF Head(s) = "*" THEN << current >> \o SplitOnAsterisk(Tail(s), <<>>)
    ELSE SplitOnAsterisk(Tail(s), Append(current, Head(s)))

\* The parts the preview renders: those at an odd index of the split (an even
\* position counting from 1) are wrapped in a span of the highlight colour.
renderHighlightedText(s) ==
    IF s = <<>> THEN <<>>
    ELSE LET parts == SplitOnAsterisk(s, <<>>)
         IN  [k \in 1..Len(parts) |-> [text |-> parts[k], isHighlighted |-> (k - 1) % 2 = 1]]

(***************************************************************************)
(* getWrappedStyledTextMetrics                                             *)
(***************************************************************************)
\* str.split(' '): the words between single spaces, empty words included.
RECURSIVE SplitSpaces(_, _, _)
SplitSpaces(s, i, segStart) ==
    IF i > Len(s) THEN << SubSeq(s, segStart, Len(s)) >>
    ELSE IF s[i] = " "
         THEN << SubSeq(s, segStart, i - 1) >> \o SplitSpaces(s, i + 1, i + 1)
    ELSE SplitSpaces(s, i + 1, segStart)

\* word + (i < words.length - 1 ? ' ' : ''), with i counted from 1 here.
WordWithSpace(words, i) == words[i] \o (IF i < Len(words) THEN << " " >> ELSE <<>>)

\* style.fontSize * 1.4
LineHeight(fontSize) == (fontSize * 14) \div 10

\* PlaceWord as it would be if the test forgot to add the width of the word
\* being placed.
PlaceWordNoLookahead(acc, fragment, wordWidth, maxW) ==
    LET flush == acc.currentLineWidth > maxW /\ Len(acc.currentLine) > 0
        base == IF flush
                THEN [lines |-> Append(acc.lines, acc.currentLine),
                      currentLine |-> <<>>, currentLineWidth |-> 0]
                ELSE acc
    IN  [lines |-> base.lines,
         currentLine |-> Append(base.currentLine, fragment),
         currentLineWidth |-> base.currentLineWidth + wordWidth]

\* Lines 42-48: flush the current line when the word does not fit and the
\* line is not empty, then put the word on the current line.
PlaceWord(acc, fragment, wordWidth, maxW) ==
    LET flush == acc.currentLineWidth + wordWidth > maxW /\ Len(acc.currentLine) > 0
        base == IF flush
                THEN [lines |-> Append(acc.lines, acc.currentLine),
                      currentLine |-> <<>>, currentLineWidth |-> 0]
                ELSE acc
    IN  [lines |-> base.lines,
         currentLine |-> Append(base.currentLine, fragment),
         currentLineWidth |-> base.currentLineWidth + wordWidth]

\* BreakLine as it would be if it pushed the empty line without flushing and
\* resetting the current line.
BreakLineNoFlush(acc) ==
    [lines |-> Append(acc.lines, <<>>), currentLine |-> acc.currentLine,
     currentLineWidth |-> acc.currentLineWidth]

\* Lines 26-31: a break marker flushes a non-empty current line, pushes one
\* empty line and resets the accumulator.
BreakLine(acc) ==
    LET flushed == IF Len(acc.currentLine) > 0
                   THEN Append(acc.lines, acc.currentLine) ELSE acc.lines
    IN  [lines |-> Append(flushed, <<>>), currentLine |-> <<>>, currentLineWidth |-> 0]

\* The inner loop over the words of one run.  acc holds the loop's three
\* variables: lines, currentLine, currentLineWidth.
RECURSIVE WrapWords(_, _, _, _, _, _)
WrapWords(words, i, isHighlighted, acc, fontSize, maxW) ==
    IF i > Len(words) THEN acc
    ELSE IF words[i] = <<>> THEN WrapWords(words, i + 1, isHighlighted, acc, fontSize, maxW)
    ELSE LET wordWithSpace == WordWithSpace(words, i)
             wordWidth == MeasureText(fontSize, wordWithSpace)
         IN  WrapWords(words, i + 1, isHighlighted,
                       PlaceWord(acc, [text |-> wordWithSpace, isHighlighted |-> isHighlighted],
                                 wordWidth, maxW),
                       fontSize, maxW)

\* The outer loop over the parsed runs.
RECURSIVE WrapParts(_, _, _, _, _)
WrapParts(parsed, k, acc, fontSize, maxW) ==
    IF k > Len(parsed) THEN acc
    ELSE IF parsed[k].isNewline
    THEN WrapParts(parsed, k + 1, BreakLine(acc), fontSize, maxW)
    ELSE WrapParts(parsed, k + 1,
                   WrapWords(SplitSpaces(parsed[k].text, 1, 1), 1, parsed[k].isHighlighted,
                             acc, fontSize, maxW),
                   fontSize, maxW)

getWrappedStyledTextMetrics(parsed, fontSize, maxW) ==
    LET acc == WrapParts(parsed, 1, [lines |-> <<>>, currentLine |-> <<>>, currentLineWidth |-> 0],
                         fontSize, maxW)
        lines == IF Len(acc.currentLine) > 0 THEN Append(acc.lines, acc.currentLine) ELSE acc.lines
    IN  [lines |-> lines, height |-> Len(lines) * LineHeight(fontSize)]



(***************************************************************************)
(* SpecText: parseStyledText followed by getWrappedStyledTextMetrics on    *)
(* one text                                                                *)
(***************************************************************************)
\* Longest enumerated text.
MaxTextLen == 6

Alphabet == {"a", "b", " ", "*", "\n"}

\* "The Power of *Red*" (scenario A of the specification).
PowerOfRed ==
    << "T", "h", "e", " ", "P", "o", "w", "e", "r", " ", "o", "f", " ", "*", "R", "e", "d", "*" >>

\* Texts with a line terminator that is not the newline between a pair of
\* asterisks, and one without asterisks.
OtherTerminatorTexts ==
    { << "*", "a", "\r", "b", "*" >>, << "a", "*", "a", "\r", "b", "*", "b" >>,
      << "*", "a", "U+2028", "*" >>, << "*", "U+2029", "*" >>, << "a", "\r", "b" >> }

Texts ==
    UNION { [1..n -> Alphabet] : n \in 0..MaxTextLen } \cup { PowerOfRed }
        \cup OtherTerminatorTexts

\* The font sizes of the text pipeline: 10 px, so "a" is 5 px and "a " 8 px
\* wide, and the 18 px of the default CTA style.
TextFontSizes == {Px(10), Px(18)}

\* 0: no word fits; 13 px: at 10 px "a a" fits exactly, "aaa" does not; 30 px:
\* at 10 px every enumerated text but PowerOfRed fits on one line.
WrapWidths == {0, Px(13), Px(30)}

\* The lengths of the layout are kept exact, in units; the code computes
\* them in JavaScript numbers, and the products of the line height are kept
\* in those as well, for a font size of px whole px.

\* A text of MaxTextLen characters wraps into at most MaxTextLen + 1 lines.
LineCounts == 0..(MaxTextLen + 1)

TextPxs == { fs \div Unit : fs \in TextFontSizes }

\* The literal 1.4: the double nearest to 14 / 10.
OnePointFour == Quotient(14, 10)

\* Line 20: lineHeight = style.fontSize * 1.4
LineHeightNumber[px \in TextPxs] == Mul(DoubleOfNat(px), OnePointFour)

\* Line 53: height = lines.length * lineHeight
HeightNumber[n \in LineCounts, px \in TextPxs] == Mul(DoubleOfNat(n), LineHeightNumber[px])

\* Line 57: lineHeight = style.fontSize * 1.4, of drawStyledTextLines.
DrawLineHeightNumber[px \in TextPxs] == Mul(DoubleOfNat(px), OnePointFour)

\* Line 62: i * lineHeight, for the lines i = 0 .. n - 1.
LineOffsetNumbers[n \in LineCounts, px \in TextPxs] ==
    [k \in 1..n |-> Mul(DoubleOfNat(k - 1), DrawLineHeightNumber[px])]

\* lines.length * fontSize * 1.4 as JavaScript evaluates it: left to right.
LeftToRightNumber[n \in LineCounts, px \in TextPxs] ==
    Mul(Mul(DoubleOfNat(n), DoubleOfNat(px)), OnePointFour)

TextInit ==
    /\ text \in Texts
    /\ maxWidth \in WrapWidths
    /\ textFontSize \in TextFontSizes
    /\ parsedText = Null
    /\ metrics = Null
    /\ tpc = "start"
    /\ drawn = <<>>
    /\ heightNumber = NullRecord
    /\ lineOffsets = <<>>

Parse ==
    /\ tpc = "start"
    /\ parsedText' = parseStyledText(text)
    /\ tpc' = "parsed"
    /\ UNCHANGED <<text, maxWidth, metrics, drawn, textFontSize, heightNumber, lineOffsets,
                   nonTextVars>>

Wrap ==
    /\ tpc = "parsed"
    /\ metrics' = getWrappedStyledTextMetrics(parsedText, textFontSize, maxWidth)
    /\ heightNumber' = HeightNumber[Len(metrics'.lines), textFontSize \div Unit]
    /\ tpc' = "wrapped"
    /\ UNCHANGED <<text, maxWidth, parsedText, drawn, textFontSize, lineOffsets, nonTextVars>>

\* The text pipeline when another component is under study.
TextParked ==
    /\ text = <<>>
    /\ maxWidth = 0
    /\ parsedText = Null
    /\ metrics = Null
    /\ tpc = "parked"
    /\ drawn = <<>>
    /\ textFontSize = 0
    /\ heightNumber = NullRecord
    /\ lineOffsets = <<>>

(***************************************************************************)
(* Text editor panel: selection and the highlight toggle                   *)
(* (src/src/components/TextEditorPanel.tsx)                                *)
(***************************************************************************)
\* Longest text the editor model lets a field grow to.
MaxEditLen == 5

\* str.charAt(j) for a 0-based offset j: '' outside the string.
CharAt(s, j) == IF j >= 0 /\ j < Len(s) THEN s[j + 1] ELSE ""

Clamp(s, j) == IF j < 0 THEN 0 ELSE IF j > Len(s) THEN Len(s) ELSE j

\* str.substring(a, b) for 0-based offsets: both clamped to the string, and
\* swapped when a > b.
Substring(s, a, b) ==
    LET lo == IF Clamp(s, a) <= Clamp(s, b) THEN Clamp(s, a) ELSE Clamp(s, b)
        hi == IF Clamp(s, a) <= Clamp(s, b) THEN Clamp(s, b) ELSE Clamp(s, a)
    IN  SubSeq(s, lo + 1, hi)

\* str.substring(a)
SubstringFrom(s, a) == Substring(s, a, Len(s))

\* isAlreadyWrapped as it would be if only the asterisk before the selection
\* were looked at.
IsAlreadyWrappedLeftOnly(originalText, start, end) ==
    CharAt(originalText, start - 1) = "*"

\* const isAlreadyWrapped = ...
IsAlreadyWrapped(originalText, start, end) ==
    CharAt(originalText, start - 1) = "*" /\ CharAt(originalText, end) = "*"

\* newText of handleApplyHighlight.
HighlightToggled(originalText, start, end) ==
    IF IsAlreadyWrapped(originalText, start, end)
    THEN Substring(originalText, 0, start - 1) \o Substring(originalText, start, end)
         \o SubstringFrom(originalText, end + 1)
    ELSE Substring(originalText, 0, start) \o << "*" >> \o Substring(originalText, start, end)
         \o << "*" >> \o SubstringFrom(originalText, end)

Fields == {"title", "body"}

\* The texts the first slide's title starts from.
InitTitles == UNION { [1..n -> {"a", "*"}] : n \in 1..3 }

EditorInit ==
    /\ \E t \in InitTitles :
           slides = << [id |-> "s1", title |-> t, body |-> <<>>],
                       [id |-> "s2", title |-> <<>>, body |-> <<>>] >>
    /\ selection = NullRecord
    /\ roundTrip = NullRecord

\* onSelect of a title input or body textarea: the browser reports the
\* selection of that field, 0 <= start <= end <= length.
SelectText(index, field) ==
    \E start \in 0..Len(slides[index][field]) :
        \E end \in start..Len(slides[index][field]) :
            /\ selection' = [slideId |-> slides[index].id, field |-> field,
                             start |-> start, end |-> end]
            /\ UNCHANGED <<slides, roundTrip, nonEditorVars>>

\* handleSlideUpdate(index, field, value) followed by App's handleSlidesUpdate.
SlideUpdated(index, field, value) == [slides EXCEPT ![index][field] = value]

\* slides.findIndex(s => s.id === slideId), 1-based; 0 when there is none.
FindIndex(slideId) ==
    IF \E k \in 1..Len(slides) : slides[k].id = slideId
    THEN CHOOSE k \in 1..Len(slides) :
             slides[k].id = slideId /\ \A j \in 1..(k - 1) : slides[j].id # slideId
    ELSE 0

\* The observer's record of a toggle: the text before it, and the range that
\* holds the selected characters after it.
Toggled(slideId, field, originalText, start, end) ==
    LET shift == IF IsAlreadyWrapped(originalText, start, end) THEN -1 ELSE 1
    IN  [slideId |-> slideId, field |-> field, before |-> originalText,
         start |-> start + shift, end |-> end + shift,
         wrapped |-> ~IsAlreadyWrapped(originalText, start, end),
         selected |-> Substring(originalText, start, end),
         enclosedTwice |-> /\ IsAlreadyWrapped(originalText, start, end)
                           /\ CharAt(originalText, start - 2) = "*"
                           /\ CharAt(originalText, end + 1) = "*"]

\* The highlight button of a field: handleApplyHighlight(slideId, field).
ApplyHighlight(slideId, field) ==
    IF \/ selection = NullRecord
       \/ selection.slideId # slideId
       \/ selection.field # field
       \/ selection.start = selection.end
       \/ FindIndex(slideId) = 0
    THEN UNCHANGED vars
    ELSE LET slideIndex == FindIndex(slideId)
             originalText == slides[slideIndex][field]
             newText == HighlightToggled(originalText, selection.start, selection.end)
             this == Toggled(slideId, field, originalText, selection.start, selection.end)
             again == /\ roundTrip # NullRecord
                      /\ roundTrip.second = NullRecord
                      /\ roundTrip.first.slideId = slideId
                      /\ roundTrip.first.field = field
                      /\ roundTrip.first.start = selection.start
                      /\ roundTrip.first.end = selection.end
         IN  /\ Len(newText) <= MaxEditLen
             /\ slides' = SlideUpdated(slideIndex, field, newText)
             /\ selection' = NullRecord
             /\ roundTrip' = IF again
                             THEN [first |-> roundTrip.first, second |-> this]
                             ELSE [first |-> this, second |-> NullRecord]
             /\ UNCHANGED nonEditorVars

EditorNext ==
    \/ \E index \in 1..Len(slides) : \E field \in Fields : SelectText(index, field)
    \/ \E index \in 1..Len(slides) : \E field \in Fields :
           ApplyHighlight(slides[index].id, field)

\* The editor when another component is under study.
EditorParked ==
    /\ slides = <<>>
    /\ selection = NullRecord
    /\ roundTrip = NullRecord


(***************************************************************************)
(* Slide compositor: createSlideCanvas (src/src/utils/canvasGenerator.ts)  *)
(***************************************************************************)
\* const outputSize = 1080
outputSize == Px(1080)

\* canvas.height as it would be with a true 4:5 portrait (1080 x 5 / 4).
CanvasHeightFourFifths(ratio) == IF ratio = "1:1" THEN outputSize ELSE (outputSize * 5) \div 4

\* canvas.height: outputSize, or Math.round(outputSize * (4 / 3)) = 1440 px.
CanvasHeight(ratio) == IF ratio = "1:1" THEN outputSize ELSE (outputSize * 4) \div 3

RECURSIVE GCD(_, _)
GCD(a, b) == IF b = 0 THEN a ELSE GCD(b, a % b)

\* const scale = outputSize / previewWidth, for a preview width of a whole
\* number of px: the quotient as a fraction in lowest terms.  A length
\* multiplied by the scale, and every length computed with scaled lengths
\* (the whole layout and every drawing call of one composite), is an integer
\* number of 1 / (Unit x scale.den) px; for the preview widths that divide
\* 1080 that is 1 / Unit px.  The arithmetic is exact: the rounding of the
\* JavaScript numbers is studied apart, on scaleStyle alone.
ScaleOf(previewWidthPx) ==
    [num |-> 1080 \div GCD(1080, previewWidthPx),
     den |-> previewWidthPx \div GCD(1080, previewWidthPx)]

\* A length that is not scaled, in the unit of the scaled ones.
Fine(len, scale) == len * scale.den

\* scaleStyle(style, scale)
scaleStyle(style, scale) ==
    [style EXCEPT !.fontSize = @ * scale.num,
                  !.shadow = [@ EXCEPT !.blur = @ * scale.num,
                                       !.offsetX = @ * scale.num,
                                       !.offsetY = @ * scale.num]]

\* const scaledCtaBg = {...}
ScaledCtaBg(background, scale) ==
    [background EXCEPT !.borderRadius = @ * scale.num,
                       !.paddingX = @ * scale.num,
                       !.paddingY = @ * scale.num]

\* ---- the objects of one call ----
\* The slide, its style objects and the overlay are JavaScript objects: a
\* call gets references to them, and the caller holds the same references.
\* The objects are kept in a sequence, a reference is an index into it, and
\* an object literal of the code appends a new object.

\* The argument objects of a call, laid out from their values, with the
\* references the call is given; scaled holds the call's locals.
ArgObjects(a) ==
  [slide |-> 10, imageOverlay |-> 11, scaled |-> NullRecord,
   heap |->
    << a.slide.titleStyle.shadow,                                   \* 1
       [a.slide.titleStyle EXCEPT !.shadow = 1],                    \* 2
       a.slide.bodyStyle.shadow,                                    \* 3
       [a.slide.bodyStyle EXCEPT !.shadow = 3],                     \* 4
       a.slide.cta.style.shadow,                                    \* 5
       [a.slide.cta.style EXCEPT !.shadow = 5],                     \* 6
       a.slide.cta.background,                                      \* 7
       [a.slide.cta EXCEPT !.style = 6, !.background = 7],          \* 8
       a.slide.layoutStyle,                                         \* 9
       [a.slide EXCEPT !.titleStyle = 2, !.bodyStyle = 4,
                       !.cta = 8, !.layoutStyle = 9],               \* 10
       a.imageOverlay >>]                                           \* 11

\* What the caller reads from the argument objects: the slide with its
\* styles, and the overlay.
ArgValues(o) ==
  LET h == o.heap
  IN
    [slide |-> [h[o.slide] EXCEPT
                    !.titleStyle = [h[@] EXCEPT !.shadow = h[@]],
                    !.bodyStyle = [h[@] EXCEPT !.shadow = h[@]],
                    !.layoutStyle = h[@],
                    !.cta = [h[@] EXCEPT !.style = [h[@] EXCEPT !.shadow = h[@]],
                                         !.background = h[@]]],
     imageOverlay |-> h[o.imageOverlay]]

\* Lines 99-102 as they would be if scaleStyle assigned the scaled numbers to
\* the style it is given and to that style's shadow: [heap, ref].
ScaleStyleObjectInPlace(h, r, scale) ==
    [heap |-> [h EXCEPT ![r] = [@ EXCEPT !.fontSize = @ * scale.num],
                        ![h[r].shadow] = [@ EXCEPT !.blur = @ * scale.num,
                                                   !.offsetX = @ * scale.num,
                                                   !.offsetY = @ * scale.num]],
     ref |-> r]

\* Lines 99-102: scaleStyle returns { ...style, fontSize: ..., shadow:
\* { ...style.shadow, blur: ..., offsetX: ..., offsetY: ... } }: a new shadow
\* object and a new style object that refers to it: [heap, ref].
ScaleStyleObject(h, r, scale) ==
    LET shadow == [h[h[r].shadow] EXCEPT !.blur = @ * scale.num,
                                         !.offsetX = @ * scale.num,
                                         !.offsetY = @ * scale.num]
        h1 == Append(h, shadow)
    IN  [heap |-> Append(h1, [h[r] EXCEPT !.fontSize = @ * scale.num, !.shadow = Len(h1)]),
         ref |-> Len(h1) + 1]

\* Line 107: scaledCtaBg = { ...slide.cta.background, borderRadius: ...,
\* paddingX: ..., paddingY: ... }, a new object: [heap, ref].
ScaledCtaBgObject(h, r, scale) ==
    [heap |-> Append(h, [h[r] EXCEPT !.borderRadius = @ * scale.num,
                                     !.paddingX = @ * scale.num,
                                     !.paddingY = @ * scale.num]),
     ref |-> Len(h) + 1]

\* Lines 104-108: the scaled copies the call works with, and the objects
\* afterwards.  scaledSpacing is a number held in a local.
ScaledCopies(o, scale) ==
    LET h == o.heap
        slide == h[o.slide]
        title == ScaleStyleObject(h, slide.titleStyle, scale)
        body == ScaleStyleObject(title.heap, slide.bodyStyle, scale)
        ctaStyle == ScaleStyleObject(body.heap, body.heap[slide.cta].style, scale)
        ctaBg == ScaledCtaBgObject(ctaStyle.heap, ctaStyle.heap[slide.cta].background, scale)
    IN  [o EXCEPT
         !.heap = ctaBg.heap,
         !.scaled = [titleStyle |-> title.ref, bodyStyle |-> body.ref,
                     ctaStyle |-> ctaStyle.ref, ctaBg |-> ctaBg.ref,
                     spacing |-> ctaBg.heap[slide.layoutStyle].spacing * scale.num]]

\* const ctaMarginTop = 16 * scale
CtaMarginTop(scale) == Px(16) * scale.num

\* const logoPadding = outputSize * 0.04
logoPadding == (outputSize * 4) \div 100

\* const padding = outputSize * 0.07
padding == (outputSize * 7) \div 100

\* const contentWidth = outputSize - (padding * 2)
contentWidth == outputSize - (padding * 2)

\* The natural size of the logo image the model loads (the image decoder).
LogoNatural == [width |-> 200, height |-> 100]

\* const actualLogoWidth = outputSize * (logoSize / 100)
ActualLogoWidth(logoSize) == (outputSize * logoSize) \div 100

\* const actualLogoHeight = actualLogoWidth / (logoImage.width / logoImage.height)
ActualLogoHeight(logoSize) ==
    (ActualLogoWidth(logoSize) * LogoNatural.height) \div LogoNatural.width

\* slide.cta.enabled && slide.cta.text (an empty string is falsy)
CtaPresentEnabledOnly(s) == s.cta.enabled

CtaPresent(s) == s.cta.enabled /\ s.cta.text # <<>>

\* Math.max(...widths) is -Infinity for no argument.  The two infinities of
\* the JavaScript numbers are kept as two numbers far outside every
\* coordinate, and sums and halves that meet one follow IEEE-754.
NegInfinity == 0 - 1000000000
Infinity == 0 - NegInfinity

\* a + b
Sum(a, b) ==
    IF a = Infinity \/ b = Infinity THEN Infinity
    ELSE IF a = NegInfinity \/ b = NegInfinity THEN NegInfinity
    ELSE a + b

\* a - b
Difference(a, b) ==
    IF b = NegInfinity THEN Infinity
    ELSE IF b = Infinity THEN NegInfinity
    ELSE Sum(a, 0 - b)

\* a / 2
Half(a) == IF a = Infinity \/ a = NegInfinity THEN a ELSE a \div 2

RECURSIVE MaxOf(_)
MaxOf(ws) ==
    IF ws = <<>> THEN NegInfinity
    ELSE LET rest == MaxOf(Tail(ws))
         IN  IF Head(ws) >= rest THEN Head(ws) ELSE rest

\* line.map(p => p.text).join('')
RECURSIVE JoinLine(_)
JoinLine(line) == IF line = <<>> THEN <<>> ELSE Head(line).text \o JoinLine(Tail(line))

\* Lines 163-178: the CTA block's lines, height and width.
CtaBlock(s, scale) ==
    IF CtaPresent(s)
    THEN LET style == scaleStyle(s.cta.style, scale)
             bg == ScaledCtaBg(s.cta.background, scale)
             m == getWrappedStyledTextMetrics(parseStyledText(s.cta.text), style.fontSize,
                                              Fine(contentWidth, scale) - bg.paddingX * 2)
             ctaTextWidth ==
                 MaxOf([k \in 1..Len(m.lines) |-> MeasureText(style.fontSize, JoinLine(m.lines[k]))])
         IN  [lines |-> m.lines,
              textHeight |-> m.height,
              height |-> m.height + bg.paddingY * 2,
              width |-> Sum(ctaTextWidth, bg.paddingX * 2)]
    ELSE [lines |-> <<>>, textHeight |-> 0, height |-> 0, width |-> 0]

\* Lines 180-181 as they would be if the CTA terms were added whenever the CTA
\* is enabled, its text empty or not.
TotalTextHeightEnabledOnly(s, titleHeight, scaledSpacing, bodyHeight, ctaMarginTop, ctaBlockHeight) ==
    titleHeight + scaledSpacing + bodyHeight
        + (IF CtaPresentEnabledOnly(s) THEN ctaMarginTop + ctaBlockHeight ELSE 0)

\* Lines 180-181: totalTextHeight.
TotalTextHeight(s, titleHeight, scaledSpacing, bodyHeight, ctaMarginTop, ctaBlockHeight) ==
    titleHeight + scaledSpacing + bodyHeight
        + (IF CtaPresent(s) THEN ctaMarginTop + ctaBlockHeight ELSE 0)

\* Lines 183-191 as they would be without the test of line 188.
StartYNoClamp(verticalAlign, canvasHeight, totalTextHeight, reservedLogoHeight, pad) ==
    IF verticalAlign = "top"
    THEN (IF reservedLogoHeight > 0 THEN reservedLogoHeight + pad ELSE pad)
    ELSE IF verticalAlign = "center"
    THEN (canvasHeight - totalTextHeight) \div 2
    ELSE canvasHeight - pad - totalTextHeight

\* Lines 183-191: startY, with pad for the padding.
StartY(verticalAlign, canvasHeight, totalTextHeight, reservedLogoHeight, pad) ==
    IF verticalAlign = "top"
    THEN (IF reservedLogoHeight > 0 THEN reservedLogoHeight + pad ELSE pad)
    ELSE IF verticalAlign = "center"
    THEN LET centred == (canvasHeight - totalTextHeight) \div 2
         IN  IF centred < reservedLogoHeight + pad
             THEN reservedLogoHeight + pad ELSE centred
    ELSE canvasHeight - pad - totalTextHeight

\* Lines 151-191: everything the compositor measures before it draws text,
\* with the canvas height and the reserved logo height in the unit of the
\* scaled lengths, as every length of the result.
Layout(s, scale, canvasHeight, reservedLogoHeight) ==
    LET titleStyle == scaleStyle(s.titleStyle, scale)
        bodyStyle == scaleStyle(s.bodyStyle, scale)
        titleMetrics == getWrappedStyledTextMetrics(parseStyledText(s.title),
                                                    titleStyle.fontSize,
                                                    Fine(contentWidth, scale))
        bodyMetrics == getWrappedStyledTextMetrics(parseStyledText(s.body),
                                                   bodyStyle.fontSize,
                                                   Fine(contentWidth, scale))
        cta == CtaBlock(s, scale)
        scaledSpacing == s.layoutStyle.spacing * scale.num
        total == TotalTextHeight(s, titleMetrics.height, scaledSpacing, bodyMetrics.height,
                                 CtaMarginTop(scale), cta.height)
    IN  [scale |-> scale,
         canvasHeight |-> canvasHeight,
         reservedLogoHeight |-> reservedLogoHeight,
         titleFontSize |-> titleStyle.fontSize,
         bodyFontSize |-> bodyStyle.fontSize,
         titleMetrics |-> titleMetrics,
         bodyMetrics |-> bodyMetrics,
         scaledSpacing |-> scaledSpacing,
         ctaMarginTop |-> CtaMarginTop(scale),
         ctaLines |-> cta.lines,
         ctaBlockHeight |-> cta.height,
         ctaBlockWidth |-> cta.width,
         totalTextHeight |-> total,
         startY |-> StartY(s.layoutStyle.verticalAlign, canvasHeight, total, reservedLogoHeight,
                           Fine(padding, scale))]

\* applyShadow(shadow): the context's shadow state afterwards.
applyShadow(shadow) ==
    IF shadow.enabled
    THEN [color |-> shadow.color, blur |-> shadow.blur,
          offsetX |-> shadow.offsetX, offsetY |-> shadow.offsetY]
    ELSE [color |-> "transparent", blur |-> 0, offsetX |-> 0, offsetY |-> 0]

\* applyShadow({ enabled: false, color: '', blur: 0, offsetX: 0, offsetY: 0 })
NoShadow == applyShadow([enabled |-> FALSE, color |-> "", blur |-> 0, offsetX |-> 0, offsetY |-> 0])

\* Lines 65-68 of drawStyledTextLines: where a line starts.
LineStartX(textAlign, x, canvasWidth, fullLineWidth) ==
    IF textAlign = "center" THEN x + (canvasWidth - x * 2 - fullLineWidth) \div 2
    ELSE IF textAlign = "right" THEN canvasWidth - x - fullLineWidth
    ELSE x

\* Line 57 as it would be with a line step of the bare font size.
DrawLineHeightSingle(fontSize) == fontSize

\* Line 57 of drawStyledTextLines: lineHeight = style.fontSize * 1.4
DrawLineHeight(fontSize) == (fontSize * 14) \div 10

\* Line 63: line.reduce((acc, part) => acc + ctx.measureText(part.text).width, 0)
RECURSIVE FullLineWidth(_, _)
FullLineWidth(fontSize, line) ==
    IF line = <<>> THEN 0
    ELSE MeasureText(fontSize, Head(line).text) + FullLineWidth(fontSize, Tail(line))

\* Lines 70-74: the fillText calls of one line, left to right.
RECURSIVE DrawLineParts(_, _, _, _, _, _, _)
DrawLineParts(line, j, currentX, lineY, style, shadow, block) ==
    IF j > Len(line) THEN <<>>
    ELSE << [op |-> "fillText", block |-> block, text |-> line[j].text,
             x |-> currentX, y |-> lineY,
             width |-> MeasureText(style.fontSize, line[j].text),
             fillStyle |-> IF line[j].isHighlighted THEN style.highlightColor ELSE style.color,
             shadow |-> shadow] >>
         \o DrawLineParts(line, j + 1, currentX + MeasureText(style.fontSize, line[j].text),
                          lineY, style, shadow, block)

\* drawStyledTextLines(ctx, lines, x, y, style) with ctx.font at style.fontSize
\* and the context's shadow as given: the fillText calls it issues.
RECURSIVE drawStyledTextLines(_, _, _, _, _, _, _, _)
drawStyledTextLines(lines, i, x, y, style, canvasWidth, shadow, block) ==
    IF i > Len(lines) THEN <<>>
    ELSE LET lineY == y + (i - 1) * DrawLineHeight(style.fontSize)
             fullLineWidth == FullLineWidth(style.fontSize, lines[i])
         IN  DrawLineParts(lines[i], 1, LineStartX(style.textAlign, x, canvasWidth, fullLineWidth),
                           lineY, style, shadow, block)
             \o drawStyledTextLines(lines, i + 1, x, y, style, canvasWidth, shadow, block)

\* Lines 113-115: the fonts requested before drawing.
FontRequests(s, scale) ==
    << [kind |-> "font", weight |-> "bold", size |-> scaleStyle(s.titleStyle, scale).fontSize,
        family |-> s.titleStyle.fontFamily],
       [kind |-> "font", weight |-> "normal", size |-> scaleStyle(s.bodyStyle, scale).fontSize,
        family |-> s.bodyStyle.fontFamily] >>
    \o (IF s.cta.enabled
        THEN << [kind |-> "font", weight |-> "bold", size |-> scaleStyle(s.cta.style, scale).fontSize,
                 family |-> s.cta.style.fontFamily] >>
        ELSE <<>>)

\* if (logo): null and the empty string are falsy.
HasLogo(logoSrc) == logoSrc # Null /\ logoSrc # ""

\* Lines 119-124: the image loads started (setting src).
ImageRequests(s, logoSrc) ==
    << [kind |-> "image", image |-> "background", src |-> s.src] >>
    \o (IF HasLogo(logoSrc) THEN << [kind |-> "image", image |-> "logo", src |-> logoSrc] >> ELSE <<>>)

\* Drawing calls issued with lengths that are not scaled, in the unit of the
\* scaled ones.
FineOps(issued, scale) ==
    [k \in 1..Len(issued) |->
        [issued[k] EXCEPT !.x = Fine(@, scale), !.y = Fine(@, scale),
                         !.width = Fine(@, scale), !.height = Fine(@, scale)]]

\* Lines 133-138: the overlay.
OverlayOps(imageOverlay, canvasHeight) ==
    IF imageOverlay.enabled /\ imageOverlay.opacity > 0
    THEN << [op |-> "fillRect", x |-> 0, y |-> 0, width |-> outputSize, height |-> canvasHeight,
             fillStyle |-> imageOverlay.color, globalAlpha |-> imageOverlay.opacity] >>
    ELSE <<>>

\* Line 143: logo && logoImage.complete && logoImage.naturalWidth > 0
LogoUsable(logoSrc, logoLoaded) == HasLogo(logoSrc) /\ logoLoaded

\* Lines 143-149: the logo.
LogoOps(logoSrc, logoLoaded, logoSize) ==
    IF LogoUsable(logoSrc, logoLoaded)
    THEN << [op |-> "drawImage", image |-> "logo", x |-> logoPadding, y |-> logoPadding,
             width |-> ActualLogoWidth(logoSize), height |-> ActualLogoHeight(logoSize)] >>
    ELSE <<>>

ReservedLogoHeight(logoSrc, logoLoaded, logoSize) ==
    IF LogoUsable(logoSrc, logoLoaded) THEN logoPadding + ActualLogoHeight(logoSize) ELSE 0

\* Lines 222-224: ctaBlockX.  With a block width of -Infinity (a CTA text
\* without a word) the centred and the right-aligned x are Infinity.
CtaBlockX(textAlign, ctaBlockWidth, scale) ==
    IF textAlign = "center" THEN Half(Difference(Fine(outputSize, scale), ctaBlockWidth))
    ELSE IF textAlign = "right"
    THEN Difference(Fine(outputSize, scale) - Fine(padding, scale), ctaBlockWidth)
    ELSE Fine(padding, scale)

\* Line 219 as it would be if the CTA were drawn under its own style's shadow.
CtaShadowOfStyle(ctaStyle) == applyShadow(ctaStyle.shadow)

\* Line 219: the shadow is switched off before the pill and the CTA text,
\* without looking at the CTA style.
CtaShadow(ctaStyle) == NoShadow

\* Line 215 as it would be if the body were drawn right under the title.
BodyTopNoSpacing(titleBottom, scaledSpacing) == titleBottom

\* Line 215: the y the body is drawn at, titleBottom + scaledSpacing.
BodyTop(titleBottom, scaledSpacing) == titleBottom + scaledSpacing

\* Lines 207-235: title, body and CTA, drawn from startY down.
TextOps(s, lay, hasRoundRect) ==
    LET scale == lay.scale
        titleStyle == scaleStyle(s.titleStyle, scale)
        bodyStyle == scaleStyle(s.bodyStyle, scale)
        ctaStyle == scaleStyle(s.cta.style, scale)
        bg == ScaledCtaBg(s.cta.background, scale)
        titleBottom == lay.startY + lay.titleMetrics.height
        bodyBottom == titleBottom + lay.scaledSpacing + lay.bodyMetrics.height
        ctaBlockY == bodyBottom + lay.ctaMarginTop
        ctaBlockX == CtaBlockX(s.cta.style.textAlign, lay.ctaBlockWidth, scale)
    IN  drawStyledTextLines(lay.titleMetrics.lines, 1, Fine(padding, scale), lay.startY,
                            titleStyle, Fine(outputSize, scale),
                            applyShadow(titleStyle.shadow), "title")
        \o drawStyledTextLines(lay.bodyMetrics.lines, 1, Fine(padding, scale),
                               BodyTop(titleBottom, lay.scaledSpacing),
                               bodyStyle, Fine(outputSize, scale),
                               applyShadow(bodyStyle.shadow), "body")
        \o (IF CtaPresent(s)
            THEN << [op |-> IF hasRoundRect THEN "roundRect" ELSE "rect",
                     x |-> ctaBlockX, y |-> ctaBlockY,
                     width |-> lay.ctaBlockWidth, height |-> lay.ctaBlockHeight,
                     radius |-> IF hasRoundRect THEN bg.borderRadius ELSE 0],
                    [op |-> "fill", fillStyle |-> bg.color, shadow |-> CtaShadow(ctaStyle)] >>
                 \o drawStyledTextLines(lay.ctaLines, 1, Sum(ctaBlockX, bg.paddingX),
                                        ctaBlockY + bg.paddingY, ctaStyle,
                                        Fine(outputSize, scale),
                                        CtaShadow(ctaStyle), "cta")
            ELSE <<>>)

\* Line 88 as it would be without the test: every slide is composited.
HasSrcAlways(slide) == TRUE

\* Line 88: !slide.src is false (null and the empty string are falsy).
HasSrc(slide) == slide.src # Null /\ slide.src # ""

\* The graphics state of a fresh 2D context.
FreshCtx == [globalAlpha |-> 100, shadow |-> NoShadow]

\* Lines 134-137 and 237: the graphics state at the return.  The overlay sets
\* globalAlpha and puts 1.0 back; the last statement switches the shadow off.
CtxAtReturn(imageOverlay) ==
    [globalAlpha |-> IF imageOverlay.enabled /\ imageOverlay.opacity > 0
                     THEN 100 ELSE FreshCtx.globalAlpha,
     shadow |-> NoShadow]

\* ---- inputs the compositor model enumerates ----
ShortTitle == << "a" >>

\* Wider than the content width at 42 px x 2, so it wraps, and with a line
\* break before its last word.
LongTitle ==
    << "a", "a", "a", "a", "a", " ", "*", "b", "b", "b", "b", "b", "*", " ",
       "a", "a", "a", "a", "a", " ", "a", "a", "a", "a", "a", "a", "a", "\n",
       "a", "b" >>

\* DEFAULT_TITLE_STYLE, DEFAULT_BODY_STYLE and the default CTA of App.tsx.
DefaultTitleStyle ==
    [fontSize |-> Px(42), color |-> "#FFFFFF", fontFamily |-> "Playfair Display, serif",
     textAlign |-> "left", highlightColor |-> "#FFD700",
     shadow |-> [enabled |-> TRUE, color |-> "#000000", blur |-> Px(8),
                 offsetX |-> Px(2), offsetY |-> Px(2)]]

DefaultBodyStyle ==
    [fontSize |-> Px(20), color |-> "#F3F4F6", fontFamily |-> "Roboto, sans-serif",
     textAlign |-> "left", highlightColor |-> "#FFD700",
     shadow |-> [enabled |-> TRUE, color |-> "#000000", blur |-> Px(4),
                 offsetX |-> Px(1), offsetY |-> Px(1)]]

DefaultCtaStyle ==
    [fontSize |-> Px(18), color |-> "#FFFFFF", fontFamily |-> "Poppins, sans-serif",
     textAlign |-> "center", highlightColor |-> "#FFD700",
     shadow |-> [enabled |-> FALSE, color |-> "#000000", blur |-> 0,
                 offsetX |-> 0, offsetY |-> 0]]

DefaultCtaBackground ==
    [color |-> "#007BFF", borderRadius |-> Px(8), paddingX |-> Px(24), paddingY |-> Px(12)]

TextAligns == {"left", "center", "right"}
VerticalAligns == {"top", "center", "bottom"}
AspectRatios == {"1:1", "4:5"}

\* Preview widths in px: a narrow preview, one that does not divide the output
\* width (scale 2.7), the fallback outputSize / 2 and the full output width.
PreviewWidths == {360, 400, 540, 1080}

ShopNow == << "S", "h", "o", "p", " ", "N", "o", "w" >>

MakeSlide(id, src, title, va, en, ctaText, ta) ==
    [id |-> id, src |-> src, title |-> title, body |-> << "a", " ", "*", "b", "*" >>,
     titleStyle |-> DefaultTitleStyle, bodyStyle |-> DefaultBodyStyle,
     layoutStyle |-> [verticalAlign |-> va, spacing |-> Px(16)],
     cta |-> [enabled |-> en, text |-> ctaText,
              style |-> [DefaultCtaStyle EXCEPT !.textAlign = ta],
              background |-> DefaultCtaBackground]]

\* CTA texts that are truthy in JavaScript but hold no word.
OnlySpaces == << " ", " " >>
OnlyNewline == << "\n" >>

\* The slide with the shadow of its CTA style switched on.
WithCtaShadow(slide) ==
    [slide EXCEPT !.cta.style.shadow = [enabled |-> TRUE, color |-> "#000000", blur |-> Px(4),
                                        offsetX |-> Px(1), offsetY |-> Px(1)]]

CanvasSlides ==
    { MakeSlide("s1", src, title, va, en, ctaText, ta) :
      src \in {Null, "blob:image"}, title \in {ShortTitle, LongTitle},
      va \in VerticalAligns, en \in BOOLEAN, ctaText \in {<<>>, ShopNow},
      ta \in TextAligns }
    \cup { WithCtaShadow(MakeSlide("s1", "blob:image", ShortTitle, va, TRUE, ShopNow, "center")) :
           va \in VerticalAligns }
    \cup { MakeSlide("s1", "blob:image", ShortTitle, "top", TRUE, ctaText, ta) :
           ctaText \in {OnlySpaces, OnlyNewline}, ta \in TextAligns }

\* Overlay off, on but fully transparent, and the default 30 %.
Overlays ==
    { [enabled |-> FALSE, color |-> "#000000", opacity |-> 30],
      [enabled |-> TRUE, color |-> "#000000", opacity |-> 0],
      [enabled |-> TRUE, color |-> "#000000", opacity |-> 30] }

CanvasInit ==
    /\ args \in [slide : CanvasSlides, logo : {Null, "", "data:logo"}, logoSize : {12},
                 imageOverlay : Overlays, aspectRatio : AspectRatios,
                 previewWidth : PreviewWidths]
    /\ objects = ArgObjects(args)
    /\ cpc = "start"
    /\ canvas = NullRecord
    /\ ctx = NullRecord
    /\ requests = <<>>
    /\ ops = <<>>
    /\ layout = NullRecord
    /\ env = [context |-> "unasked", fonts |-> "unasked", background |-> "unasked",
              logo |-> "unasked", brokenImageDraw |-> "unasked", roundRect |-> "unasked"]
    /\ result = "pending"

\* Lines 88-117: up to the await of the font loads.  A slide without src
\* returns null at once; so does a missing 2D context.
Start ==
    /\ cpc = "start"
    /\ IF ~HasSrc(args.slide)
       THEN /\ result' = "null"
            /\ cpc' = "done"
            /\ UNCHANGED <<objects, canvas, ctx, requests, env>>
       ELSE \E contextAvailable \in BOOLEAN :
                /\ env' = [env EXCEPT !.context = IF contextAvailable THEN "2d" ELSE "none"]
                /\ IF contextAvailable
                   THEN /\ canvas' = [width |-> outputSize,
                                      height |-> CanvasHeight(args.aspectRatio)]
                        /\ ctx' = FreshCtx
                        /\ objects' = ScaledCopies(objects, ScaleOf(args.previewWidth))
                        /\ requests' = FontRequests(args.slide, ScaleOf(args.previewWidth))
                        /\ cpc' = "fonts"
                        /\ UNCHANGED result
                   ELSE /\ canvas' = [width |-> 300, height |-> 150]
                        /\ result' = "null"
                        /\ cpc' = "done"
                        /\ UNCHANGED <<objects, ctx, requests>>
    /\ UNCHANGED <<args, ops, layout, nonCanvasVars>>

\* Lines 111-124: the font loads settle (a rejection is caught and logged), and
\* the background and logo images start loading.
FontsSettled ==
    /\ cpc = "fonts"
    /\ \E ready \in BOOLEAN :
           env' = [env EXCEPT !.fonts = IF ready THEN "loaded" ELSE "rejected"]
    /\ requests' = requests \o ImageRequests(args.slide, args.logo)
    /\ cpc' = "images"
    /\ UNCHANGED <<args, objects, canvas, ctx, ops, layout, result, nonCanvasVars>>

\* ctx.drawImage(bgImage, ...) of line 132.  For an image whose load failed
\* (state "broken") the HTML standard has drawImage throw InvalidStateError; a
\* lenient surface draws nothing instead.
BackgroundOp(canvasHeight, loaded, outcome) ==
    [op |-> "drawImage", image |-> "background", x |-> 0, y |-> 0,
     width |-> outputSize, height |-> canvasHeight,
     outcome |-> IF loaded THEN "drawn" ELSE outcome]

\* Lines 126-238: both image promises settle (onload or onerror, either way
\* resolved), then the rest of the function runs without another await.
ImagesSettled ==
    /\ cpc = "images"
    /\ \E bgLoaded \in BOOLEAN :
       \E logoLoaded \in (IF HasLogo(args.logo) THEN BOOLEAN ELSE {FALSE}) :
       \E broken \in (IF bgLoaded THEN {"none"} ELSE {"throws", "nothing"}) :
       \E hasRoundRect \in (IF CtaPresent(args.slide) /\ broken # "throws"
                            THEN BOOLEAN ELSE {TRUE}) :
           LET h == canvas.height
               scale == ScaleOf(args.previewWidth)
               lay == Layout(args.slide, scale, Fine(h, scale),
                             Fine(ReservedLogoHeight(args.logo, logoLoaded, args.logoSize),
                                  scale))
           IN  /\ env' = [env EXCEPT !.background = IF bgLoaded THEN "loaded" ELSE "error",
                                     !.logo = IF ~HasLogo(args.logo) THEN "unasked"
                                              ELSE IF logoLoaded THEN "loaded" ELSE "error",
                                     !.brokenImageDraw = broken,
                                     !.roundRect = IF hasRoundRect THEN "yes" ELSE "no"]
               /\ IF broken = "throws"
                  THEN /\ ops' = FineOps(<< BackgroundOp(h, bgLoaded, "threw") >>, scale)
                       /\ result' = "rejected"
                       /\ UNCHANGED <<layout, ctx>>
                  ELSE /\ ops' = FineOps(<< BackgroundOp(h, bgLoaded, "nothing") >>
                                         \o OverlayOps(args.imageOverlay, h)
                                         \o LogoOps(args.logo, logoLoaded, args.logoSize),
                                         scale)
                                 \o TextOps(args.slide, lay, hasRoundRect)
                       /\ layout' = lay
                       /\ ctx' = CtxAtReturn(args.imageOverlay)
                       /\ result' = "canvas"
    /\ cpc' = "done"
    /\ UNCHANGED <<args, objects, canvas, requests, nonCanvasVars>>

CanvasNext == Start \/ FontsSettled \/ ImagesSettled

\* The compositor when another component is under study.
CanvasParked ==
    /\ args = NullRecord
    /\ objects = NullRecord
    /\ cpc = "parked"
    /\ canvas = NullRecord
    /\ ctx = NullRecord
    /\ requests = <<>>
    /\ ops = <<>>
    /\ layout = NullRecord
    /\ env = NullRecord
    /\ result = "pending"


\* ---- the text pipeline's last step ----

\* Where the text pipeline draws its lines, and on how wide a canvas.
TextDrawX == Px(4)
TextDrawY == Px(100)

\* drawStyledTextLines on the wrapped lines, left-aligned in the default body
\* colours at the pipeline's font size.
Draw ==
    /\ tpc = "wrapped"
    /\ drawn' = drawStyledTextLines(metrics.lines, 1, TextDrawX, TextDrawY,
                                    [DefaultBodyStyle EXCEPT !.fontSize = textFontSize],
                                    outputSize, NoShadow, "text")
    /\ lineOffsets' = LineOffsetNumbers[Len(metrics.lines), textFontSize \div Unit]
    /\ tpc' = "drawn"
    /\ UNCHANGED <<text, maxWidth, parsedText, metrics, textFontSize, heightNumber, nonTextVars>>

TextNext == Parse \/ Wrap \/ Draw

\* ---- the export drivers ----

\* App.tsx line 563:
\* previewContainerRef.current?.getBoundingClientRect().width ?? outputSize / 2
PreviewWidthOf(container) == IF container.mounted THEN container.width ELSE 1080 \div 2

\* generatePDF's last argument to createSlideCanvas (part_004 line 268).
PdfPreviewWidth == 1080

\* What a composite of the slide measures and returns once it has drawn: the
\* canvas with its layout.
Composite(slide, d, previewWidthPx, logoLoaded) ==
    [slideId |-> slide.id,
     width |-> outputSize,
     height |-> CanvasHeight(d.aspectRatio),
     layout |-> Layout(slide, ScaleOf(previewWidthPx),
                       Fine(CanvasHeight(d.aspectRatio), ScaleOf(previewWidthPx)),
                       Fine(ReservedLogoHeight(d.logo, logoLoaded, d.logoSize),
                            ScaleOf(previewWidthPx)))]

\* A promise that rejected.
Rejected == [rejected |-> TRUE]

\* Lines 88 and 91 (App.tsx 556 and 558): a slide without src, or a missing
\* 2D context, returns null before any await.
ReturnsNullAtOnce(slide, e) == ~HasSrc(slide) \/ ~e.context

\* generateSlideCanvas(slide) of App.tsx, from call to settlement: the
\* compositor inlined in the component, scaled from the preview container's
\* width.  It rejects when drawImage throws on a broken background (line 593)
\* and when the CTA is drawn on a surface without roundRect (line 664).
generateSlideCanvas(slide, d, container, e, i) ==
    IF ReturnsNullAtOnce(slide, e) THEN NullRecord
    ELSE IF ~e.bgLoaded[i] /\ e.brokenImageDraw = "throws" THEN Rejected
    ELSE IF CtaPresent(slide) /\ ~e.hasRoundRect THEN Rejected
    ELSE Composite(slide, d, PreviewWidthOf(container), e.logoLoaded)

\* createSlideCanvas(slide, logo, logoSize, imageOverlay, aspectRatio,
\* previewWidth), from call to settlement.  It rejects when drawImage throws
\* on a broken background (line 132); without roundRect it draws a rect.
createSlideCanvas(slide, d, previewWidthPx, e, i) ==
    IF ReturnsNullAtOnce(slide, e) THEN NullRecord
    ELSE IF ~e.bgLoaded[i] /\ e.brokenImageDraw = "throws" THEN Rejected
    ELSE Composite(slide, d, previewWidthPx, e.logoLoaded)

\* The loops of handleDownloadAllSlides and generatePDF from index i on: the
\* first slide whose composite waits for its fonts (the composites before it
\* return null at once and add nothing), or Len + 1 when the loop runs out.
RECURSIVE NextWaiting(_, _, _)
NextWaiting(d, e, i) ==
    IF i > Len(d.slides) THEN i
    ELSE IF ReturnsNullAtOnce(d.slides[i], e) THEN NextWaiting(d, e, i + 1)
    ELSE i

\* slides.findIndex(s => s.id === slide.id) + 1 (0 when no slide has the id)
SlideNumber(list, slideId) ==
    IF \E k \in 1..Len(list) : list[k].id = slideId
    THEN CHOOSE k \in 1..Len(list) :
             list[k].id = slideId /\ \A j \in 1..(k - 1) : list[j].id # slideId
    ELSE 0

Drivers == {"single", "all", "pdf"}

\* Most export handlers invoked in one behaviour.
MaxHandlers == 2

\* Each driver is invoked at most once in a behaviour.
NotYetRun(driver) ==
    /\ Len(exportRuns) < MaxHandlers
    /\ \A k \in 1..Len(exportRuns) : exportRuns[k].driver # driver

NewRun(driver, pc, i, files) ==
    [driver |-> driver, pc |-> pc, i |-> i, files |-> files, canvas |-> NullRecord]

\* generatePDF, lines 257-258: pdfWidth and pdfHeight, in tenths of a
\* millimetre (210 mm by 210 mm or 262.5 mm).
PdfPageSize(aspectRatio) ==
    [width |-> 2100, height |-> IF aspectRatio = "1:1" THEN 2100 ELSE 2625]

\* generatePDF, lines 273-277: jsPDF starts with one page; a composited slide
\* that is not the first of the list gets a new page, and addImage puts the
\* image on the last page.
PdfAddImage(pages, i, c) ==
    LET withPage == IF i - 1 > 0 THEN Append(pages, <<>>) ELSE pages
    IN  [withPage EXCEPT ![Len(withPage)] = Append(@, [number |-> i, canvas |-> c])]

\* What a finished export handed to the browser.
ZipExport(files) == [driver |-> "all", files |-> files]
PdfExport(pages) == [driver |-> "pdf", files |-> pages, page |-> PdfPageSize(deck.aspectRatio)]

\* handleDownloadSlide(slide), lines 675-676: the handler is invoked and waits
\* for the composite's fonts; a composite that returns null ends it with no
\* download.
DownloadSlide(i) ==
    /\ NotYetRun("single")
    /\ IF ReturnsNullAtOnce(deck.slides[i], exportEnv)
       THEN exportRuns' = Append(exportRuns, NewRun("single", "done", i, <<>>))
       ELSE exportRuns' = Append(exportRuns, NewRun("single", "fonts", i, <<>>))
    /\ UNCHANGED <<deck, previewContainer, exports, exportEnv, nonExportVars>>

\* handleDownloadAllSlides, lines 687-697 (and 707 when no composite waits):
\* nothing for an empty list; else the loop runs up to its first await that
\* leaves the event loop, or to zip.generateAsync.
DownloadAllSlides ==
    /\ NotYetRun("all")
    /\ LET j == NextWaiting(deck, exportEnv, 1)
       IN  exportRuns' = Append(exportRuns,
               IF Len(deck.slides) = 0 THEN NewRun("all", "done", 0, <<>>)
               ELSE IF j > Len(deck.slides) THEN NewRun("all", "archive", j, <<>>)
               ELSE NewRun("all", "fonts", j, <<>>))
    /\ UNCHANGED <<deck, previewContainer, exports, exportEnv, nonExportVars>>

\* generatePDF, lines 251-268 (and 281-282 when no composite waits): nothing
\* for an empty list; else the loop runs up to its first await that leaves
\* the event loop, or saves the document of one blank page.
DownloadPdf ==
    /\ NotYetRun("pdf")
    /\ LET j == NextWaiting(deck, exportEnv, 1)
       IN  IF Len(deck.slides) = 0
           THEN /\ exportRuns' = Append(exportRuns, NewRun("pdf", "done", 0, << <<>> >>))
                /\ UNCHANGED exports
           ELSE IF j > Len(deck.slides)
           THEN /\ exportRuns' = Append(exportRuns, NewRun("pdf", "done", j, << <<>> >>))
                /\ exports' = Append(exports, PdfExport(<< <<>> >>))
           ELSE /\ exportRuns' = Append(exportRuns, NewRun("pdf", "fonts", j, << <<>> >>))
                /\ UNCHANGED exports
    /\ UNCHANGED <<deck, previewContainer, exportEnv, nonExportVars>>

\* canvasGenerator.ts 111-124 (App.tsx 578-587): the font loads of the
\* composite in progress settle, and its images start loading.
ExportFontsSettled ==
    \E r \in 1..Len(exportRuns) :
        /\ exportRuns[r].pc = "fonts"
        /\ exportRuns' = [exportRuns EXCEPT ![r].pc = "images"]
    /\ UNCHANGED <<deck, previewContainer, exports, exportEnv, nonExportVars>>

\* How a handler goes on when its composite c has settled, j being the next
\* slide whose composite waits: the handler's new position and what it handed
\* to the browser.  handleDownloadSlide (676-683) triggers the download;
\* handleDownloadAllSlides (698-699) calls toBlob; generatePDF (270-282) adds
\* the image and goes round the loop, saving the document after the last
\* slide.  A rejected composite rejects the handler.
AfterComposite(run, c, j, d) ==
    IF c = Rejected
    THEN [run |-> [run EXCEPT !.pc = "rejected"], exported |-> <<>>]
    ELSE IF run.driver = "single"
    THEN LET files == << [number |-> SlideNumber(d.slides, d.slides[run.i].id), canvas |-> c] >>
         IN  [run |-> [run EXCEPT !.pc = "done", !.files = files],
              exported |-> << [driver |-> "single", files |-> files] >>]
    ELSE IF run.driver = "all"
    THEN [run |-> [run EXCEPT !.pc = "toBlob", !.canvas = c], exported |-> <<>>]
    ELSE LET pages == PdfAddImage(run.files, run.i, c)
         IN  IF j > Len(d.slides)
             THEN [run |-> [run EXCEPT !.pc = "done", !.i = j, !.files = pages],
                   exported |-> << [driver |-> "pdf", files |-> pages,
                                    page |-> PdfPageSize(d.aspectRatio)] >>]
             ELSE [run |-> [run EXCEPT !.pc = "fonts", !.i = j, !.files = pages],
                   exported |-> <<>>]

\* The composite a waiting handler is waiting for: generatePDF calls the
\* shared compositor at preview width 1080 (line 268), the two download
\* handlers the inlined one (App.tsx 676, 697).
CompositeOf(run, d, container, e) ==
    IF run.driver = "pdf"
    THEN createSlideCanvas(d.slides[run.i], d, PdfPreviewWidth, e, run.i)
    ELSE generateSlideCanvas(d.slides[run.i], d, container, e, run.i)

\* The image loads of the composite in progress settle and the composite
\* draws and returns, or throws; the handler goes on to its next await.
ExportImagesSettled ==
    \E r \in 1..Len(exportRuns) :
        /\ exportRuns[r].pc = "images"
        /\ LET out == AfterComposite(exportRuns[r],
                                     CompositeOf(exportRuns[r], deck, previewContainer, exportEnv),
                                     NextWaiting(deck, exportEnv, exportRuns[r].i + 1), deck)
           IN  /\ exportRuns' = [exportRuns EXCEPT ![r] = out.run]
               /\ exports' = exports \o out.exported
    /\ UNCHANGED <<deck, previewContainer, exportEnv, nonExportVars>>

\* handleDownloadAllSlides, lines 699-707: toBlob calls back, with a blob or
\* with null; only a blob is added to the archive; the loop goes on to the
\* next composite that waits, or to zip.generateAsync.
BlobCalledBack ==
    \E r \in 1..Len(exportRuns) : \E blob \in BOOLEAN :
        LET run == exportRuns[r]
            files == IF blob THEN Append(run.files, [number |-> run.i, canvas |-> run.canvas])
                     ELSE run.files
            j == NextWaiting(deck, exportEnv, run.i + 1)
        IN  /\ run.pc = "toBlob"
            /\ exportRuns' = [exportRuns EXCEPT
                   ![r] = [NewRun("all", IF j > Len(deck.slides) THEN "archive" ELSE "fonts",
                                  j, files) EXCEPT !.canvas = NullRecord]]
    /\ UNCHANGED <<deck, previewContainer, exports, exportEnv, nonExportVars>>

\* handleDownloadAllSlides, lines 707-716: the archive is generated and its
\* download is triggered.
ArchiveGenerated ==
    \E r \in 1..Len(exportRuns) :
        /\ exportRuns[r].pc = "archive"
        /\ exportRuns' = [exportRuns EXCEPT ![r].pc = "done"]
        /\ exports' = Append(exports, ZipExport(exportRuns[r].files))
    /\ UNCHANGED <<deck, previewContainer, exportEnv, nonExportVars>>

\* The preview container's widths the model enumerates, in px.
ContainerWidths == {360, 540, 1080}

PreviewContainers ==
    { [mounted |-> FALSE, width |-> 0] } \cup
    { [mounted |-> TRUE, width |-> w] : w \in ContainerWidths }

\* The drawing surfaces and image loads an export can meet: no 2D context at
\* all; or a context with or without roundRect, each slide's background
\* loading or not, the logo loading or not, and drawImage of a broken image
\* throwing or drawing nothing.
ExportEnvs(d) ==
    { [context |-> FALSE, hasRoundRect |-> TRUE, bgLoaded |-> << TRUE, TRUE >>,
       logoLoaded |-> FALSE, brokenImageDraw |-> "nothing"] }
    \cup
    { e \in [context : {TRUE}, hasRoundRect : BOOLEAN,
             bgLoaded : { << TRUE, TRUE >>, << FALSE, TRUE >> },
             logoLoaded : IF HasLogo(d.logo) THEN BOOLEAN ELSE {FALSE},
             brokenImageDraw : {"nothing", "throws"}] :
          /\ e.bgLoaded = << TRUE, TRUE >> => e.brokenImageDraw = "nothing"
          /\ e.bgLoaded # << TRUE, TRUE >> => e.logoLoaded = HasLogo(d.logo) }

ExportInit ==
    /\ deck \in [slides : { << MakeSlide("s1", srcs[1], t, "top", TRUE, ShopNow, "center"),
                              MakeSlide("s2", srcs[2], ShortTitle, "bottom", FALSE, <<>>, "center") >> :
                            t \in {ShortTitle, LongTitle},
                            srcs \in { << Null, Null >>, << Null, "blob:image" >>,
                                       << "blob:image", "blob:image" >> } },
                 logo : {Null, "data:logo"}, logoSize : {12},
                 imageOverlay : { [enabled |-> TRUE, color |-> "#000000", opacity |-> 30] },
                 aspectRatio : AspectRatios]
    /\ previewContainer \in PreviewContainers
    /\ exportEnv \in ExportEnvs(deck)
    /\ exportRuns = <<>>
    /\ exports = <<>>

ExportNext ==
    \/ \E i \in 1..Len(deck.slides) : DownloadSlide(i)
    \/ DownloadAllSlides
    \/ DownloadPdf
    \/ ExportFontsSettled
    \/ ExportImagesSettled
    \/ BlobCalledBack
    \/ ArchiveGenerated

\* The export drivers when another component is under study.
ExportParked ==
    /\ deck = NullRecord
    /\ previewContainer = NullRecord
    /\ exportEnv = NullRecord
    /\ exportRuns = <<>>
    /\ exports = <<>>

\* ---- scaleStyle in JavaScript numbers ----
\* scaleStyle(style, scale) as it would be if only the font size were scaled.
scaleStyleDoubleFontOnly(style, scale) ==
    [style EXCEPT !.fontSize = Mul(@, scale)]

\* scaleStyle(style, scale) on doubles.
scaleStyleDouble(style, scale) ==
    [style EXCEPT !.fontSize = Mul(@, scale),
                  !.shadow = [@ EXCEPT !.blur = Mul(@, scale),
                                       !.offsetX = Mul(@, scale),
                                       !.offsetY = Mul(@, scale)]]

\* A style whose lengths are whole px, as doubles.
StyleOfPx(style) ==
    [style EXCEPT !.fontSize = DoubleOfNat(@),
                  !.shadow = [@ EXCEPT !.blur = DoubleOfNat(@),
                                       !.offsetX = DoubleOfNat(@),
                                       !.offsetY = DoubleOfNat(@)]]

\* The default styles of App.tsx, lengths in px.
PxStyles ==
    { [st EXCEPT !.fontSize = @ \div Unit,
                 !.shadow = [@ EXCEPT !.blur = @ \div Unit,
                                      !.offsetX = @ \div Unit,
                                      !.offsetY = @ \div Unit]] :
      st \in {DefaultTitleStyle, DefaultBodyStyle, DefaultCtaStyle} }

\* The factors are the scales of line 97, outputSize / previewWidth, for the
\* preview widths of the compositor model and for every width of a whole
\* number of hundreds of px up to MaxHundreds: 10.8, 5.4, 3.6, 3, 2.7, 2.16,
\* 2, 1.8, 1.542857..., 1.35, 1.2 and 1.  Only 1, 2 and 3 are whole numbers,
\* so the products of the others are rounded.
MaxHundreds == 9

ScaleWidths == PreviewWidths \cup { 100 * k : k \in 1..MaxHundreds }

ScaleInputs == [style : PxStyles, w1 : ScaleWidths, w2 : ScaleWidths]

ScaleInit ==
    /\ scaleIn \in ScaleInputs
    /\ scaleOut = NullRecord

\* scaleStyle(style, f2), and scaleStyle(scaleStyle(style, f1), f2 / f1), with
\* f1 = 1080 / w1 and f2 = 1080 / w2, as a function of the inputs.
ScaledBothWays[in \in ScaleInputs] ==
    LET f1 == Quotient(1080, in.w1)
        f2 == Quotient(1080, in.w2)
    IN  [f1 |-> f1, f2 |-> f2,
         direct |-> scaleStyleDouble(StyleOfPx(in.style), f2),
         composed |-> scaleStyleDouble(scaleStyleDouble(StyleOfPx(in.style), f1),
                                       Div(f2, f1))]

ScaleBothWays ==
    /\ scaleOut = NullRecord
    /\ scaleOut' = ScaledBothWays[scaleIn]
    /\ UNCHANGED <<scaleIn, nonScaleVars>>

ScaleNext == ScaleBothWays

\* scaleStyle when another component is under study.
ScaleParked ==
    /\ scaleIn = NullRecord
    /\ scaleOut = NullRecord

\* ---- App state, panel edits and style presets ----
\* Objects live in heap; a field that holds an object holds its index there.
\* An object spread ({ ...o, p: v }) allocates one new object and shares the
\* objects o refers to; JSON.parse(JSON.stringify(o)) allocates a copy of o
\* and of everything it refers to.

\* The reference the next allocation in h returns.
NewRef(h) == Len(h) + 1

\* JSON.parse(JSON.stringify(style)) for a StyleState: [heap, ref].
CopyStyle(h, r) ==
    LET h1 == Append(h, h[h[r].shadow])
    IN  [heap |-> Append(h1, [h[r] EXCEPT !.shadow = NewRef(h)]), ref |-> NewRef(h1)]

\* JSON.parse(JSON.stringify(layoutStyle)), and the same for a CTA background.
CopyFlat(h, r) == [heap |-> Append(h, h[r]), ref |-> NewRef(h)]

\* JSON.parse(JSON.stringify(cta)) for a CtaState.
CopyCta(h, r) ==
    LET st == CopyStyle(h, h[r].style)
        bg == CopyFlat(st.heap, h[r].background)
    IN  [heap |-> Append(bg.heap, [h[r] EXCEPT !.style = st.ref, !.background = bg.ref]),
         ref |-> NewRef(bg.heap)]

\* The four deep copies of one slide's styles: [heap, titleStyle, ..., cta].
CopySlideStyles(h, slide) ==
    LET t == CopyStyle(h, slide.titleStyle)
        b == CopyStyle(t.heap, slide.bodyStyle)
        l == CopyFlat(b.heap, slide.layoutStyle)
        c == CopyCta(l.heap, slide.cta)
    IN  [heap |-> c.heap, titleStyle |-> t.ref, bodyStyle |-> b.ref,
         layoutStyle |-> l.ref, cta |-> c.ref]

\* The value of an object with the objects it refers to.
StyleValue(h, r) == [h[r] EXCEPT !.shadow = h[@]]

CtaValue(h, r) == [h[r] EXCEPT !.style = StyleValue(h, @), !.background = h[@]]

BundleValue(h, b) ==
    [titleStyle |-> StyleValue(h, b.titleStyle), bodyStyle |-> StyleValue(h, b.bodyStyle),
     layoutStyle |-> h[b.layoutStyle], cta |-> CtaValue(h, b.cta)]

PresetValue(h, preset) ==
    [id |-> preset.id, name |-> preset.name, logo |-> preset.logo,
     logoSize |-> preset.logoSize, imageOverlay |-> h[preset.imageOverlay],
     base |-> BundleValue(h, preset),
     lastSlideStyle |-> IF preset.lastSlideStyle = NullRecord THEN NullRecord
                        ELSE BundleValue(h, preset.lastSlideStyle)]

\* The objects of a fresh two-slide carousel generated without a preset
\* (App.tsx lines 391-401): the slides' style objects are spreads of the
\* defaults, so they share the defaults' shadow, CTA style and CTA background.
InitialHeap ==
    << DefaultTitleStyle.shadow,                                       \* 1
       DefaultBodyStyle.shadow,                                        \* 2
       DefaultCtaStyle.shadow,                                         \* 3
       [DefaultCtaStyle EXCEPT !.shadow = 3],                          \* 4
       DefaultCtaBackground,                                           \* 5
       [enabled |-> TRUE, color |-> "#000000", opacity |-> 30],        \* 6
       [DefaultTitleStyle EXCEPT !.shadow = 1],                        \* 7
       [DefaultBodyStyle EXCEPT !.shadow = 2],                         \* 8
       [verticalAlign |-> "bottom", spacing |-> Px(16)],               \* 9
       [enabled |-> FALSE, text |-> "Shop Now", style |-> 4, background |-> 5],   \* 10
       [DefaultTitleStyle EXCEPT !.shadow = 1],                        \* 11
       [DefaultBodyStyle EXCEPT !.shadow = 2],                         \* 12
       [verticalAlign |-> "bottom", spacing |-> Px(16)],               \* 13
       [enabled |-> TRUE, text |-> "Shop The Collection", style |-> 4, background |-> 5],  \* 14
       [DefaultTitleStyle EXCEPT !.shadow = 1],                        \* 15
       [DefaultBodyStyle EXCEPT !.shadow = 2],                         \* 16
       [verticalAlign |-> "bottom", spacing |-> Px(16)] >>             \* 17

\* DEFAULT_IMAGE_OVERLAY_STYLE, and DEFAULT_TITLE_STYLE, DEFAULT_BODY_STYLE and
\* DEFAULT_LAYOUT_STYLE: the module-level objects the state starts with.
DefaultOverlayRef == 6
DefaultGlobalStyles == [titleStyle |-> 15, bodyStyle |-> 16, layoutStyle |-> 17]

InitialSlides ==
    << [id |-> "slide-1", title |-> "One", titleStyle |-> 7, bodyStyle |-> 8,
        layoutStyle |-> 9, cta |-> 10],
       [id |-> "slide-2", title |-> "Two", titleStyle |-> 11, bodyStyle |-> 12,
        layoutStyle |-> 13, cta |-> 14] >>

\* Handler calls in one behaviour.
MaxPresetOps == 3

\* JSON.parse of the text of a style, of a flat object and of a CTA: the
\* objects it allocates, [heap, ref].
ParseStyle(h, v) ==
    LET h1 == Append(h, v.shadow)
    IN  [heap |-> Append(h1, [v EXCEPT !.shadow = NewRef(h)]), ref |-> NewRef(h1)]

ParseFlat(h, v) == [heap |-> Append(h, v), ref |-> NewRef(h)]

ParseCta(h, v) ==
    LET st == ParseStyle(h, v.style)
        bg == ParseFlat(st.heap, v.background)
    IN  [heap |-> Append(bg.heap, [v EXCEPT !.style = st.ref, !.background = bg.ref]),
         ref |-> NewRef(bg.heap)]

\* JSON.parse of the text of a bundle of four styles: [heap, bundle].
ParseBundle(h, v) ==
    LET t == ParseStyle(h, v.titleStyle)
        b == ParseStyle(t.heap, v.bodyStyle)
        l == ParseFlat(b.heap, v.layoutStyle)
        c == ParseCta(l.heap, v.cta)
    IN  [heap |-> c.heap,
         bundle |-> [titleStyle |-> t.ref, bodyStyle |-> b.ref, layoutStyle |-> l.ref,
                     cta |-> c.ref]]

\* JSON.parse of the text of one preset that has a terminal bundle:
\* [heap, preset].
ParsePreset(h, v) ==
    LET base == ParseBundle(h, v)
        o == ParseFlat(base.heap, v.imageOverlay)
        last == ParseBundle(o.heap, v.lastSlideStyle)
    IN  [heap |-> last.heap,
         preset |-> [id |-> v.id, name |-> v.name, logo |-> v.logo,
                     titleStyle |-> base.bundle.titleStyle,
                     bodyStyle |-> base.bundle.bodyStyle,
                     layoutStyle |-> base.bundle.layoutStyle, cta |-> base.bundle.cta,
                     logoSize |-> v.logoSize, imageOverlay |-> o.ref,
                     lastSlideStyle |-> last.bundle]]

\* JSON.parse of the text of a list of presets: [heap, presets].
RECURSIVE ParsePresets(_, _)
ParsePresets(h, list) ==
    IF list = <<>> THEN [heap |-> h, presets |-> <<>>]
    ELSE LET first == ParsePreset(h, Head(list))
             rest == ParsePresets(first.heap, Tail(list))
         IN  [heap |-> rest.heap, presets |-> <<first.preset>> \o rest.presets]

\* What localStorage holds under 'aiCarouselPresets' when the App mounts:
\* nothing, or the one preset an earlier visit saved.
StoredPreset ==
    [id |-> "preset-0", name |-> "stored", logo |-> "data:stored-logo",
     titleStyle |-> [DefaultTitleStyle EXCEPT !.fontSize = Px(30)],
     bodyStyle |-> DefaultBodyStyle,
     layoutStyle |-> [verticalAlign |-> "top", spacing |-> Px(16)],
     cta |-> [enabled |-> FALSE, text |-> "Shop Now", style |-> DefaultCtaStyle,
              background |-> DefaultCtaBackground],
     logoSize |-> 14,
     imageOverlay |-> [enabled |-> TRUE, color |-> "#000000", opacity |-> 40],
     lastSlideStyle |->
         [titleStyle |-> DefaultTitleStyle, bodyStyle |-> DefaultBodyStyle,
          layoutStyle |-> [verticalAlign |-> "center", spacing |-> Px(16)],
          cta |-> [enabled |-> TRUE, text |-> "Visit", style |-> DefaultCtaStyle,
                   background |-> DefaultCtaBackground]]]
LocalStorageAtMount == { <<>>, <<StoredPreset>> }

\* setPresets(JSON.parse(savedPresets)) over the objects a generated carousel
\* has: [heap, presets].
LoadedAtMount(stored) == ParsePresets(InitialHeap, stored)

\* The state after the App has mounted (the effect of lines 78-87 has read
\* localStorage) and a first carousel has been generated.
PresetInit ==
    /\ \E stored \in LocalStorageAtMount :
         /\ heap = LoadedAtMount(stored).heap
         /\ presets = LoadedAtMount(stored).presets
         /\ saved = [k \in 1..Len(presets) |-> PresetValue(heap, presets[k])]
    /\ appSlides = InitialSlides
    /\ appLogo \in {Null, "data:logo"}
    /\ appLogoSize = 12
    /\ appOverlay = DefaultOverlayRef
    /\ appGlobal = DefaultGlobalStyles
    /\ activePresetId = Null
    /\ lastApplied = NullRecord
    /\ presetOps = 0
    /\ reads = {}

\* `preset-${Date.now()}`: the ids of the presets made in this visit, one per
\* millisecond in which a preset is made.
PresetIds == << "preset-1", "preset-2", "preset-3", "preset-4", "preset-5", "preset-6" >>

\* The presets made in this visit, in the order they were made.
MadeHere == SelectSeq(saved, LAMBDA v : v.id # StoredPreset.id)

\* The ids Date.now() can give the next preset: that of a new millisecond,
\* or that of the preset made last when it was made in this millisecond.
NowIds ==
    {PresetIds[Len(MadeHere) + 1]}
        \cup (IF MadeHere = <<>> THEN {} ELSE {MadeHere[Len(MadeHere)].id})

\* handleSavePreset(name)
SavePreset(name) ==
    /\ presetOps < MaxPresetOps
    /\ presetOps' = presetOps + 1
    /\ \E now \in NowIds :
       IF name = "" \/ Len(appSlides) = 0
       THEN UNCHANGED <<heap, presets, activePresetId, saved>>
       ELSE LET firstSlide == appSlides[1]
                lastSlide == IF Len(appSlides) > 1 THEN appSlides[Len(appSlides)] ELSE firstSlide
                base == CopySlideStyles(heap, firstSlide)
                last == CopySlideStyles(base.heap, lastSlide)
                newPreset ==
                    [id |-> now, name |-> name, logo |-> appLogo,
                     titleStyle |-> base.titleStyle, bodyStyle |-> base.bodyStyle,
                     layoutStyle |-> base.layoutStyle, cta |-> base.cta,
                     logoSize |-> appLogoSize, imageOverlay |-> appOverlay,
                     lastSlideStyle |-> [titleStyle |-> last.titleStyle, bodyStyle |-> last.bodyStyle,
                                         layoutStyle |-> last.layoutStyle, cta |-> last.cta]]
            IN  /\ heap' = last.heap
                /\ presets' = Append(presets, newPreset)
                /\ activePresetId' = newPreset.id
                /\ saved' = Append(saved, PresetValue(last.heap, newPreset))
    /\ UNCHANGED <<appSlides, appLogo, appLogoSize, appOverlay, lastApplied, appGlobal, reads, nonPresetVars>>

\* A preset file written before presets had a terminal bundle or a logo:
\* base styles only.
BaseOnlyFile ==
    [name |-> "imported",
     titleStyle |-> [DefaultTitleStyle EXCEPT !.fontSize = Px(36)],
     bodyStyle |-> DefaultBodyStyle,
     layoutStyle |-> [verticalAlign |-> "center", spacing |-> Px(16)],
     cta |-> [enabled |-> TRUE, text |-> "Swipe", style |-> DefaultCtaStyle,
              background |-> DefaultCtaBackground],
     logoSize |-> 10,
     imageOverlay |-> [enabled |-> TRUE, color |-> "#000000", opacity |-> 50]]

\* The file handleExportPreset writes for the preset an earlier visit saved:
\* every field but the id.
ExportedFile == [k \in DOMAIN StoredPreset \ {"id"} |-> StoredPreset[k]]

\* { ...importedData, id, logo: importedData.logo || null } with the objects
\* JSON.parse allocated for the text of the file: [heap, preset].
ImportedPreset(h, importedData, id) ==
    LET base == ParseBundle(h, importedData)
        o == ParseFlat(base.heap, importedData.imageOverlay)
        hasLast == "lastSlideStyle" \in DOMAIN importedData
        last == IF hasLast THEN ParseBundle(o.heap, importedData.lastSlideStyle)
                ELSE [heap |-> o.heap, bundle |-> NullRecord]
    IN  [heap |-> last.heap,
         preset |-> [id |-> id, name |-> importedData.name,
                     logo |-> IF "logo" \in DOMAIN importedData
                                 /\ importedData.logo # Null /\ importedData.logo # ""
                              THEN importedData.logo ELSE Null,
                     titleStyle |-> base.bundle.titleStyle,
                     bodyStyle |-> base.bundle.bodyStyle,
                     layoutStyle |-> base.bundle.layoutStyle, cta |-> base.bundle.cta,
                     logoSize |-> importedData.logoSize, imageOverlay |-> o.ref,
                     lastSlideStyle |-> last.bundle]]

\* handleImportPreset(file) for a JSON file: it starts a FileReader and
\* returns.  reader.onload is a closure of this call: the presets it tests
\* for the name are those of the render the handler belongs to.
ImportPreset(file) ==
    /\ presetOps < MaxPresetOps
    /\ presetOps' = presetOps + 1
    /\ reads' = reads \cup {[n |-> presetOps + 1, file |-> file,
                              names |-> { presets[k].name : k \in 1..Len(presets) }]}
    /\ UNCHANGED <<heap, appSlides, appLogo, appLogoSize, appOverlay, presets, activePresetId,
                   saved, lastApplied, appGlobal, nonPresetVars>>

\* A read settles: reader.onerror, or reader.onload for a file that has the
\* required fields.  The name is tested against the presets the handler
\* closed over, the preset is appended to the presets held now.
ReaderSettles ==
    /\ \E read \in reads, loaded \in BOOLEAN, now \in NowIds :
         /\ reads' = reads \ {read}
         /\ IF ~loaded \/ read.file.name \in read.names
            THEN UNCHANGED <<heap, presets, saved>>
            ELSE LET parsed == ImportedPreset(heap, read.file, now)
                 IN  /\ heap' = parsed.heap
                     /\ presets' = Append(presets, parsed.preset)
                     /\ saved' = Append(saved, PresetValue(parsed.heap, parsed.preset))
    /\ UNCHANGED <<appSlides, appLogo, appLogoSize, appOverlay, activePresetId, lastApplied,
                   appGlobal, presetOps, nonPresetVars>>

\* handleSlidesUpdate(newSlides)
SlidesUpdated(newSlides) ==
    /\ appSlides' = newSlides
    /\ activePresetId' = Null

\* handleSlideUpdate(index, 'title', value) of the panel
EditTitle(index, value) ==
    /\ presetOps < MaxPresetOps
    /\ presetOps' = presetOps + 1
    /\ SlidesUpdated([appSlides EXCEPT ![index] = [@ EXCEPT !.title = value]])
    /\ UNCHANGED <<heap, appLogo, appLogoSize, appOverlay, presets, saved, lastApplied,
                   appGlobal, reads, nonPresetVars>>

\* The new CTA object of handleStyleChange(index, 'cta', prop, value): [heap, ref].
NewCtaValue(h, ctaRef, prop, value) ==
    LET cta == h[ctaRef]
    IN  IF prop = "backgroundColor"
        THEN LET h1 == Append(h, [h[cta.background] EXCEPT !.color = value])
             IN  [heap |-> Append(h1, [cta EXCEPT !.background = NewRef(h)]), ref |-> NewRef(h1)]
        ELSE IF prop \in DOMAIN h[cta.style]
        THEN LET h1 == Append(h, [h[cta.style] EXCEPT ![prop] = value])
             IN  [heap |-> Append(h1, [cta EXCEPT !.style = NewRef(h)]), ref |-> NewRef(h1)]
        ELSE IF prop \in DOMAIN h[cta.background]
        THEN LET h1 == Append(h, [h[cta.background] EXCEPT ![prop] = value])
             IN  [heap |-> Append(h1, [cta EXCEPT !.background = NewRef(h)]), ref |-> NewRef(h1)]
        ELSE [heap |-> Append(h, [cta EXCEPT ![prop] = value]), ref |-> NewRef(h)]

\* handleStyleChange(index, styleType, prop, value)
StyleChange(index, styleType, prop, value) ==
    /\ presetOps < MaxPresetOps
    /\ presetOps' = presetOps + 1
    /\ LET slide == appSlides[index]
           new == IF styleType = "cta" THEN NewCtaValue(heap, slide.cta, prop, value)
                  ELSE [heap |-> Append(heap, [heap[slide[styleType]] EXCEPT ![prop] = value]),
                        ref |-> NewRef(heap)]
       IN  /\ heap' = new.heap
           /\ SlidesUpdated([appSlides EXCEPT ![index] = [slide EXCEPT ![styleType] = new.ref]])
    /\ UNCHANGED <<appLogo, appLogoSize, appOverlay, presets, saved, lastApplied, appGlobal, reads, nonPresetVars>>

\* handleApplyStylesToAll: slides.map(...) sharing the source's objects; each
\* slide gets a new cta object around the source's style and background.
RECURSIVE StylesToAll(_, _, _, _)
StylesToAll(h, list, i, source) ==
    IF i > Len(list) THEN [heap |-> h, slides |-> list]
    ELSE StylesToAll(
             Append(h, [h[list[i].cta] EXCEPT !.style = h[source.cta].style,
                                              !.background = h[source.cta].background]),
             [list EXCEPT ![i] = [@ EXCEPT !.titleStyle = source.titleStyle,
                                           !.bodyStyle = source.bodyStyle,
                                           !.layoutStyle = source.layoutStyle,
                                           !.cta = NewRef(h)]],
             i + 1, source)

\* handleApplyStylesToAll(sourceIndex)
ApplyStylesToAll(sourceIndex) ==
    /\ presetOps < MaxPresetOps
    /\ presetOps' = presetOps + 1
    /\ LET r == StylesToAll(heap, appSlides, 1, appSlides[sourceIndex])
       IN  /\ heap' = r.heap
           /\ SlidesUpdated(r.slides)
    /\ UNCHANGED <<appLogo, appLogoSize, appOverlay, presets, saved, lastApplied, appGlobal, reads, nonPresetVars>>

\* arrayMove(array, from, to) of @dnd-kit/sortable
ArrayMove(list, from, to) ==
    LET without == SubSeq(list, 1, from - 1) \o SubSeq(list, from + 1, Len(list))
    IN  SubSeq(without, 1, to - 1) \o << list[from] >> \o SubSeq(without, to, Len(without))

\* handleDragEnd: the slide at oldIndex dropped on the slide at newIndex.
DragEnd(oldIndex, newIndex) ==
    /\ presetOps < MaxPresetOps
    /\ oldIndex # newIndex
    /\ presetOps' = presetOps + 1
    /\ SlidesUpdated(ArrayMove(appSlides, oldIndex, newIndex))
    /\ UNCHANGED <<heap, appLogo, appLogoSize, appOverlay, presets, saved, lastApplied,
                   appGlobal, reads, nonPresetVars>>

\* handleLogoUpdate(newLogo)
LogoUpdate(newLogo) ==
    /\ presetOps < MaxPresetOps
    /\ presetOps' = presetOps + 1
    /\ appLogo' = newLogo
    /\ activePresetId' = Null
    /\ UNCHANGED <<heap, appSlides, appLogoSize, appOverlay, presets, saved, lastApplied,
                   appGlobal, reads, nonPresetVars>>

\* handleLogoSizeUpdate(newSize)
LogoSizeUpdate(newSize) ==
    /\ presetOps < MaxPresetOps
    /\ presetOps' = presetOps + 1
    /\ appLogoSize' = newSize
    /\ activePresetId' = Null
    /\ UNCHANGED <<heap, appSlides, appLogo, appOverlay, presets, saved, lastApplied,
                   appGlobal, reads, nonPresetVars>>

\* The overlay object after handleImageOverlayUpdate as it would be if the
\* handler assigned the property on the current object.
OverlayAssignedInPlace(h, overlayRef, prop, value) ==
    [heap |-> [h EXCEPT ![overlayRef] = [@ EXCEPT ![prop] = value]], ref |-> overlayRef]

\* setImageOverlayStyle(s => ({ ...s, [prop]: value }))
OverlaySpread(h, overlayRef, prop, value) ==
    [heap |-> Append(h, [h[overlayRef] EXCEPT ![prop] = value]), ref |-> NewRef(h)]

\* handleImageOverlayUpdate(prop, value)
ImageOverlayUpdate(prop, value) ==
    /\ presetOps < MaxPresetOps
    /\ presetOps' = presetOps + 1
    /\ LET new == OverlaySpread(heap, appOverlay, prop, value)
       IN  /\ heap' = new.heap
           /\ appOverlay' = new.ref
    /\ activePresetId' = Null
    /\ UNCHANGED <<appSlides, appLogo, appLogoSize, presets, saved, lastApplied, appGlobal, reads, nonPresetVars>>

\* presets.find(p => p.id === presetId): its index, 0 when there is none.
FindPreset(presetId) ==
    IF \E k \in 1..Len(presets) : presets[k].id = presetId
    THEN CHOOSE k \in 1..Len(presets) :
             presets[k].id = presetId /\ \A j \in 1..(k - 1) : presets[j].id # presetId
    ELSE 0

\* The cta object of a non-terminal slide as it would be if the preset's whole
\* CTA were applied: [heap, ref].
BaseCtaWhole(h, slide, preset) == CopyCta(h, preset.cta)

\* Lines 281-285: { ...slide.cta, style: copy, background: copy }: [heap, ref].
BaseCta(h, slide, preset) ==
    LET st == CopyStyle(h, h[preset.cta].style)
        bg == CopyFlat(st.heap, h[preset.cta].background)
    IN  [heap |-> Append(bg.heap, [h[slide.cta] EXCEPT !.style = st.ref, !.background = bg.ref]),
         ref |-> NewRef(bg.heap)]

\* Lines 264-288: currentSlides.map(...)
RECURSIVE PresetToSlides(_, _, _, _)
PresetToSlides(h, list, i, preset) ==
    IF i > Len(list) THEN [heap |-> h, slides |-> list]
    ELSE IF i = Len(list) /\ preset.lastSlideStyle # NullRecord
    THEN LET c == CopySlideStyles(h, preset.lastSlideStyle)
         IN  PresetToSlides(c.heap,
                 [list EXCEPT ![i] = [@ EXCEPT !.titleStyle = c.titleStyle, !.bodyStyle = c.bodyStyle,
                                               !.layoutStyle = c.layoutStyle, !.cta = c.cta]],
                 i + 1, preset)
    ELSE LET t == CopyStyle(h, preset.titleStyle)
             b == CopyStyle(t.heap, preset.bodyStyle)
             l == CopyFlat(b.heap, preset.layoutStyle)
             c == BaseCta(l.heap, list[i], preset)
         IN  PresetToSlides(c.heap,
                 [list EXCEPT ![i] = [@ EXCEPT !.titleStyle = t.ref, !.bodyStyle = b.ref,
                                               !.layoutStyle = l.ref, !.cta = c.ref]],
                 i + 1, preset)

\* handleApplyPreset(presetId)
ApplyPreset(presetId) ==
    /\ presetOps < MaxPresetOps
    /\ presetOps' = presetOps + 1
    /\ IF FindPreset(presetId) = 0
       THEN UNCHANGED <<heap, appSlides, appLogo, appLogoSize, appOverlay, activePresetId,
                        lastApplied>>
       ELSE LET preset == presets[FindPreset(presetId)]
                r == PresetToSlides(heap, appSlides, 1, preset)
            IN  /\ appLogo' = preset.logo
                /\ appLogoSize' = preset.logoSize
                /\ appOverlay' = preset.imageOverlay
                /\ heap' = r.heap
                /\ appSlides' = r.slides
                /\ activePresetId' = preset.id
                /\ lastApplied' = [preset |-> FindPreset(presetId), at |-> presetOps + 1,
                                   before |-> [k \in 1..Len(appSlides) |->
                                                   CtaValue(heap, appSlides[k].cta)]]
    /\ UNCHANGED <<presets, saved, appGlobal, reads, nonPresetVars>>

\* handleDeletePreset(presetId), with the answer given to window.confirm.
DeletePreset(presetId, confirmed) ==
    /\ presetOps < MaxPresetOps
    /\ presetOps' = presetOps + 1
    /\ IF confirmed
       THEN /\ presets' = SelectSeq(presets, LAMBDA p : p.id # presetId)
            /\ activePresetId' = IF activePresetId = presetId THEN Null ELSE activePresetId
       ELSE UNCHANGED <<presets, activePresetId>>
    /\ UNCHANGED <<heap, appSlides, appLogo, appLogoSize, appOverlay, appGlobal, saved,
                   lastApplied, reads, nonPresetVars>>

\* The six state updates of resetToDefaultStyles.
ResetStyles ==
    /\ appGlobal' = DefaultGlobalStyles
    /\ appLogoSize' = 12
    /\ appOverlay' = DefaultOverlayRef
    /\ activePresetId' = Null

\* The state updates of handleSelectPresetForGeneration(presetId): none when
\* no preset has the id.
SelectedPreset(presetId) ==
    IF FindPreset(presetId) = 0
    THEN UNCHANGED <<appGlobal, appLogo, appLogoSize, appOverlay, activePresetId>>
    ELSE LET preset == presets[FindPreset(presetId)]
         IN  /\ appGlobal' = [titleStyle |-> preset.titleStyle,
                              bodyStyle |-> preset.bodyStyle,
                              layoutStyle |-> preset.layoutStyle]
             /\ appLogo' = preset.logo
             /\ appLogoSize' = preset.logoSize
             /\ appOverlay' = preset.imageOverlay
             /\ activePresetId' = preset.id

\* resetToDefaultStyles()
ResetToDefaultStyles ==
    /\ presetOps < MaxPresetOps
    /\ presetOps' = presetOps + 1
    /\ ResetStyles
    /\ UNCHANGED <<heap, appSlides, appLogo, presets, saved, lastApplied, reads, nonPresetVars>>

\* handleSelectPresetForGeneration(presetId): the global styles, the logo and
\* the overlay become the preset's own objects (no copy is made).
SelectPresetForGeneration(presetId) ==
    /\ presetOps < MaxPresetOps
    /\ presetOps' = presetOps + 1
    /\ SelectedPreset(presetId)
    /\ UNCHANGED <<heap, appSlides, presets, saved, lastApplied, reads, nonPresetVars>>

\* The (styleType, prop, value) edits the model makes.
StyleEdits ==
    { << "titleStyle", "fontSize", Px(48) >>,
      << "layoutStyle", "verticalAlign", "top" >>,
      << "cta", "enabled", TRUE >>,
      << "cta", "fontSize", Px(24) >>,
      << "cta", "backgroundColor", "#00FF00" >>,
      << "cta", "paddingX", Px(30) >> }

\* The presets whose buttons are pressed.
PresetTargets == {StoredPreset.id, PresetIds[1], PresetIds[2]}

PresetNext ==
    \/ \E name \in {"", "brand"} : SavePreset(name)
    \/ \E index \in 1..Len(appSlides) : EditTitle(index, "Edited")
    \/ \E index \in 1..Len(appSlides), e \in StyleEdits : StyleChange(index, e[1], e[2], e[3])
    \/ \E sourceIndex \in 1..Len(appSlides) : ApplyStylesToAll(sourceIndex)
    \/ \E oldIndex \in 1..Len(appSlides), newIndex \in 1..Len(appSlides) : DragEnd(oldIndex, newIndex)
    \/ LogoUpdate("data:logo2")
    \/ LogoSizeUpdate(20)
    \/ ImageOverlayUpdate("opacity", 60)
    \/ \E presetId \in PresetTargets : ApplyPreset(presetId)
    \/ \E file \in {BaseOnlyFile, ExportedFile} : ImportPreset(file)
    \/ ReaderSettles
    \/ \E presetId \in PresetTargets, confirmed \in BOOLEAN :
           DeletePreset(presetId, confirmed)
    \/ ResetToDefaultStyles
    \/ \E presetId \in PresetTargets : SelectPresetForGeneration(presetId)

\* The App state when another component is under study.
PresetParked ==
    /\ heap = <<>>
    /\ appSlides = <<>>
    /\ appLogo = Null
    /\ appLogoSize = 0
    /\ appOverlay = 0
    /\ appGlobal = NullRecord
    /\ presets = <<>>
    /\ activePresetId = Null
    /\ saved = <<>>
    /\ lastApplied = NullRecord
    /\ presetOps = 0
    /\ reads = {}

(***************************************************************************)
(* Generation and regeneration: handleGenerateCarousel, generateCarousel,  *)
(* handleGenerateTest, handleRegenerateImage and handleStartOver           *)
(***************************************************************************)
MaxCalls == 3       \* handler calls in one behaviour
MaxPlan == 2        \* slides the planning step returns
TestSlideCount == 5 \* testSlidesData.length
RegenTargets == 1..2 \* positions of the slides whose regenerate button is pressed

\* App.tsx, DEFAULT_CTA_STATE, and the default layout.
DefaultCtaState ==
    [enabled |-> FALSE, text |-> "Shop Now", style |-> DefaultCtaStyle,
     background |-> DefaultCtaBackground]
DefaultLayoutStyle == [verticalAlign |-> "bottom", spacing |-> Px(16)]

\* DEFAULT_TITLE_STYLE, DEFAULT_BODY_STYLE and DEFAULT_LAYOUT_STYLE as values.
DefaultGlobals ==
    [titleStyle |-> DefaultTitleStyle, bodyStyle |-> DefaultBodyStyle,
     layoutStyle |-> DefaultLayoutStyle]

\* globalTitleStyle, globalBodyStyle and globalLayoutStyle as values.
GlobalStylesValue(h, global) ==
    [titleStyle |-> StyleValue(h, global.titleStyle),
     bodyStyle |-> StyleValue(h, global.bodyStyle),
     layoutStyle |-> h[global.layoutStyle]]

\* presets.find(p => p.id === activePresetId) as a value: what a generation
\* reads of it, or NullRecord for undefined.
ActivePresetValue(h) ==
    IF FindPreset(activePresetId) = 0 THEN NullRecord
    ELSE LET preset == presets[FindPreset(activePresetId)]
         IN  [cta |-> CtaValue(h, preset.cta),
              lastSlideStyle |-> IF preset.lastSlideStyle = NullRecord THEN NullRecord
                                 ELSE BundleValue(h, preset.lastSlideStyle)]

\* What the two prompt fields can hold when a button of the form is pressed,
\* as sequences of characters: empty, white space only, and text with white
\* space around it.
PromptTexts == { <<>>, <<" ">>, <<"\r">>, <<"\f", "U+00A0">>, <<" ", "a", " ">> }

\* What the Pexels key field can hold.
ApiKeys == { <<>>, <<"\f">>, <<"k">> }

\* String.prototype.trim: the text without the white space and line
\* terminators at its two ends.  The characters that cannot be written in a
\* string here go by their code points.
TrimWhiteSpace ==
    {" ", "\t", "\n", "\f", "\r", "U+000B", "U+00A0", "U+1680", "U+2000", "U+2001",
     "U+2002", "U+2003", "U+2004", "U+2005", "U+2006", "U+2007", "U+2008", "U+2009",
     "U+200A", "U+2028", "U+2029", "U+202F", "U+205F", "U+3000", "U+FEFF"}
RECURSIVE trimStart(_)
trimStart(str) ==
    IF str # <<>> /\ Head(str) \in TrimWhiteSpace THEN trimStart(Tail(str)) ELSE str
RECURSIVE trimEnd(_)
trimEnd(str) ==
    IF str # <<>> /\ str[Len(str)] \in TrimWhiteSpace
    THEN trimEnd(SubSeq(str, 1, Len(str) - 1))
    ELSE str
trim(str) == trimEnd(trimStart(str))

\* The checks handleGenerateCarousel makes before it starts: the message it
\* sets, or Null.  The image prompt is tested as it is, the content prompt
\* and the Pexels key after trim.
ValidationError(in) ==
    LET finalImagePrompt == IF in.imageSource = "ai" THEN in.imagePrompt ELSE <<>>
    IN  IF finalImagePrompt = <<>> /\ in.imageSource = "ai"
        THEN "Image Style Prompt cannot be empty for AI generation."
        ELSE IF trim(in.contentPrompt) = <<>> THEN "Slide Content cannot be empty."
        ELSE IF in.imageSource = "pexels" /\ trim(in.pexelsApiKey) = <<>>
        THEN "Pexels API key is required when using Pexels as image source."
        ELSE Null

\* Promise.all as if it waited for every promise and kept those that
\* succeeded (Promise.allSettled, filtered).
PromiseAllKeepFulfilled(promises) ==
    IF \E i \in 1..Len(promises) : promises[i] = "pending" THEN [state |-> "pending"]
    ELSE [state |-> "fulfilled",
          values |-> { i \in 1..Len(promises) : promises[i] = "fulfilled" }]

\* Promise.all over the image promises: rejected as soon as one is rejected,
\* fulfilled with every value once all are fulfilled.  A Pexels search that
\* finds nothing ("empty") throws, so its promise is rejected too.
PromiseAll(promises) ==
    IF \E i \in 1..Len(promises) : promises[i] \in {"rejected", "empty"}
    THEN [state |-> "rejected"]
    ELSE IF \E i \in 1..Len(promises) : promises[i] = "pending" THEN [state |-> "pending"]
    ELSE [state |-> "fulfilled", values |-> 1..Len(promises)]

\* The k-th element of a set of numbers, in increasing order.
RECURSIVE Nth(_, _)
Nth(set, k) ==
    LET m == CHOOSE x \in set : \A y \in set : x <= y
    IN  IF k = 1 THEN m ELSE Nth(set \ {m}, k - 1)

\* formattedSlides of handleGenerateCarousel: one slide per generated image.
FormattedSlides(values, deckNo, activePreset, globalStyles) ==
    [k \in 1..Cardinality(values) |->
        LET isLastSlide == k = Cardinality(values)
            base == [id |-> [deck |-> deckNo, index |-> k - 1],
                     src |-> [from |-> "carousel", n |-> Nth(values, k)],
                     isLoading |-> FALSE, error |-> Null]
        IN  IF isLastSlide /\ activePreset # NullRecord
               /\ activePreset.lastSlideStyle # NullRecord
            THEN base @@ activePreset.lastSlideStyle
            ELSE base @@
                 [titleStyle |-> globalStyles.titleStyle,
                  bodyStyle |-> globalStyles.bodyStyle,
                  layoutStyle |-> globalStyles.layoutStyle,
                  cta |-> IF activePreset # NullRecord THEN activePreset.cta
                          ELSE [DefaultCtaState EXCEPT
                                  !.enabled = isLastSlide,
                                  !.text = IF isLastSlide THEN "Shop The Collection"
                                           ELSE @]]]

\* testSlides of handleGenerateTest.
TestSlides(deckNo, globalStyles) ==
    [k \in 1..TestSlideCount |->
        [id |-> [deck |-> deckNo, index |-> k - 1],
         src |-> [from |-> "picsum", n |-> k - 1],
         isLoading |-> FALSE, error |-> Null,
         titleStyle |-> globalStyles.titleStyle, bodyStyle |-> globalStyles.bodyStyle,
         layoutStyle |-> globalStyles.layoutStyle,
         cta |-> [DefaultCtaState EXCEPT
                    !.enabled = k = TestSlideCount,
                    !.text = IF k = TestSlideCount THEN "Learn More" ELSE @]]]

\* handleStyleChange(index, 'titleStyle', 'fontSize', value) and
\* handleSlideUpdate(index, 'title', value): the values typed in the panel.
EditedTitle == "Edited"
EditedFontSize == Px(48)

\* The slides of a session saved by an earlier visit (the effect of lines
\* 102-117 writes them at every change): two generated slides, the second
\* saved while its image was being regenerated.
SavedSlides ==
    [k \in 1..2 |->
        [FormattedSlides({1, 2}, 0, NullRecord, DefaultGlobals)[k] EXCEPT
            !.isLoading = (k = 2)]]

\* JSON.parse(localStorage.getItem('acc_session_v1') || 'null') at mount:
\* null, a session saved with edited prompts and no slides, or a session
\* saved with slides, a logo, a logo size and an overlay.
SavedSessions ==
    { NullRecord,
      [slides |-> <<>>, imageSource |-> "pexels", logo |-> Null, logoSize |-> 12,
       imageOverlayStyle |-> [enabled |-> TRUE, color |-> "#000000", opacity |-> 30]] }
    \cup
    { [slides |-> SavedSlides, imageSource |-> source, logo |-> "data:logo",
       logoSize |-> 20,
       imageOverlayStyle |-> [enabled |-> TRUE, color |-> "#000000", opacity |-> 40]] :
        source \in {"ai", "pexels"} }

\* savedSession?.slides || [], savedSession?.imageSource || 'ai',
\* savedSession?.logo || null and savedSession?.logoSize || 12 (lines 50-60).
RestoredSlides(session) == IF session = NullRecord THEN <<>> ELSE session.slides
RestoredImageSource(session) == IF session = NullRecord THEN "ai" ELSE session.imageSource
RestoredLogo(session) == IF session = NullRecord THEN Null ELSE session.logo
RestoredLogoSize(session) == IF session = NullRecord THEN 12 ELSE session.logoSize

\* savedSession?.imageOverlayStyle || DEFAULT_IMAGE_OVERLAY_STYLE (line 61):
\* the object JSON.parse made, or the module's default object: [heap, ref].
RestoredOverlay(h, session) ==
    IF session = NullRecord THEN [heap |-> h, ref |-> DefaultOverlayRef]
    ELSE ParseFlat(h, session.imageOverlayStyle)

\* What a render shows of the state: the slides and isLoading.
Committed == [slides |-> genSlides, isLoading |-> isLoading]

\* The state after the mount: useState takes the slides and the image source
\* of the saved session, nothing is loading and no call is running.
SessionInit ==
    /\ \E session \in SavedSessions :
         /\ genSlides = RestoredSlides(session)
         /\ imageSource = RestoredImageSource(session)
    /\ isLoading = FALSE
    /\ genError = Null
    /\ genPc = "idle"
    /\ genInput = NullRecord
    /\ genImages = <<>>
    /\ decks = 0
    /\ regens = {}
    /\ regenLog = <<>>
    /\ calls = 0
    /\ pexelsApiKey \in ApiKeys
    /\ modalSlide = NullRecord
    /\ rendered = Committed

\* The App state the session starts from: the logo, the logo size and the
\* overlay of the same saved session, the presets read from localStorage and
\* the default styles.
SessionAppInit ==
    /\ \E stored \in LocalStorageAtMount, session \in SavedSessions :
         LET overlay == RestoredOverlay(InitialHeap, session)
             loaded == ParsePresets(overlay.heap, stored)
         IN  /\ genSlides = RestoredSlides(session)
             /\ imageSource = RestoredImageSource(session)
             /\ heap = loaded.heap
             /\ presets = loaded.presets
             /\ saved = [k \in 1..Len(presets) |-> PresetValue(heap, presets[k])]
             /\ appLogo = RestoredLogo(session)
             /\ appLogoSize = RestoredLogoSize(session)
             /\ appOverlay = overlay.ref
    /\ appSlides = <<>>
    /\ appGlobal = DefaultGlobalStyles
    /\ activePresetId = Null
    /\ lastApplied = NullRecord
    /\ presetOps = 0
    /\ reads = {}

\* The variables of the other components but the App state.
nonAppVars == <<textVars, editorVars, canvasVars, exportVars, scaleVars, raceVars, twinVars, zipVars>>

\* The buttons and fields on screen are those of the render that was last
\* committed, and their handlers read the state of that render.  A state
\* update made inside an event handler is rendered before the next event; an
\* update made when an awaited promise resumes is rendered later, in a task
\* of its own, and an input event can be handled first.

\* The form is on screen: it is rendered while slides.length === 0, the
\* editor panel otherwise (App.tsx 743).
FormShown == rendered.slides = <<>>

\* setImageSource(source), from the form.
SetImageSource(source) ==
    /\ FormShown
    /\ imageSource' = source
    /\ rendered' = Committed
    /\ UNCHANGED <<genSlides, isLoading, genError, genPc, genInput, genImages, decks, regens,
                   regenLog, calls, pexelsApiKey, modalSlide, nonSessionVars>>

\* setPexelsApiKey(e.target.value): the key field of the form, rendered while
\* the image source is Pexels.
SetPexelsApiKey(key) ==
    /\ FormShown /\ imageSource = "pexels"
    /\ pexelsApiKey' = key
    /\ rendered' = Committed
    /\ UNCHANGED <<genSlides, isLoading, genError, genPc, genInput, genImages, decks, regens,
                   regenLog, calls, imageSource, modalSlide, nonSessionVars>>

\* The session state a handler of the form's preset buttons leaves alone.
PresetButtonFrame ==
    /\ rendered' = Committed
    /\ UNCHANGED <<genSlides, isLoading, genError, genPc, genInput, genImages, decks, regens,
                   regenLog, calls, imageSource, pexelsApiKey, modalSlide>>

\* The Default Style button of the form: resetToDefaultStyles.
FormResetToDefaultStyles ==
    /\ FormShown /\ presets # <<>>
    /\ ResetStyles
    /\ PresetButtonFrame
    /\ UNCHANGED <<heap, appSlides, appLogo, presets, saved, lastApplied, presetOps, reads,
                   nonAppVars>>

\* A preset button of the form: handleSelectPresetForGeneration(presetId).
FormSelectPreset(presetId) ==
    /\ FormShown
    /\ FindPreset(presetId) # 0
    /\ SelectedPreset(presetId)
    /\ PresetButtonFrame
    /\ UNCHANGED <<heap, appSlides, presets, saved, lastApplied, presetOps, reads,
                   nonAppVars>>

\* The Generate button is enabled (App.tsx 837).
GenerateEnabled(in) ==
    /\ ~rendered.isLoading
    /\ trim(in.contentPrompt) # <<>>
    /\ in.imageSource = "ai" => trim(in.imagePrompt) # <<>>
    /\ in.imageSource = "pexels" => trim(in.pexelsApiKey) # <<>>

\* handleGenerateCarousel up to its await, called from the Generate button
\* with the prompt fields as they were typed.  The call keeps the presets,
\* the active preset and the global styles of the render it belongs to.
GenerateCarousel ==
    /\ FormShown
    /\ genPc = "idle"
    /\ calls < MaxCalls
    /\ calls' = calls + 1
    /\ \E imagePrompt \in PromptTexts, contentPrompt \in PromptTexts :
         LET in == [imageSource |-> imageSource, imagePrompt |-> imagePrompt,
                    contentPrompt |-> contentPrompt, pexelsApiKey |-> pexelsApiKey]
         IN  /\ GenerateEnabled(in)
             /\ IF ValidationError(in) # Null
                THEN /\ genError' = ValidationError(in)
                     /\ UNCHANGED <<genSlides, isLoading, genPc, genInput, genImages>>
                ELSE /\ isLoading' = TRUE
                     /\ genError' = Null
                     /\ genSlides' = <<>>
                     /\ genInput' = [imageSource |-> imageSource,
                                     activePreset |-> ActivePresetValue(heap),
                                     globalStyles |-> GlobalStylesValue(heap, appGlobal)]
                     /\ genImages' = <<>>
                     /\ genPc' = "planning"
    /\ rendered' = Committed'
    /\ UNCHANGED <<decks, regens, regenLog, imageSource, pexelsApiKey, modalSlide,
                   nonSessionVars>>

\* The start of the message generateCarousel throws when Promise.all rejects.
ImagesFailedMessage == "One or more images could not be created."

\* The end of handleGenerateCarousel when generateCarousel throws: catch and
\* finally.
GenerationFailed(message) ==
    /\ genError' = message
    /\ isLoading' = FALSE
    /\ genPc' = "idle"
    /\ UNCHANGED genSlides

\* generateCarousel, step 1: the planning call answers with n slides, or fails
\* (an error, text that is not JSON, or an empty array).
PlanSettles ==
    /\ genPc = "planning"
    /\ \/ \E n \in 1..MaxPlan :
            /\ genImages' = [i \in 1..n |-> "pending"]
            /\ genPc' = "images"
            /\ UNCHANGED <<genSlides, isLoading, genError>>
       \/ /\ GenerationFailed("Failed to plan the carousel.")
          /\ UNCHANGED genImages
    /\ UNCHANGED <<genInput, decks, regens, regenLog, calls, imageSource, pexelsApiKey,
                   modalSlide, rendered, nonSessionVars>>

\* generateCarousel, step 2: one image promise settles.
ImageSettles ==
    /\ genPc = "images"
    /\ \E i \in 1..Len(genImages) :
         /\ genImages[i] = "pending"
         /\ \E outcome \in IF genInput.imageSource = "pexels"
                           THEN {"fulfilled", "empty", "rejected"}
                           ELSE {"fulfilled", "rejected"} :
              genImages' = [genImages EXCEPT ![i] = outcome]
    /\ UNCHANGED <<genSlides, isLoading, genError, genPc, genInput, decks, regens, regenLog,
                   calls, imageSource, pexelsApiKey, modalSlide, rendered, nonSessionVars>>

\* generateCarousel returns or throws, and handleGenerateCarousel resumes.
GenerateResumes ==
    /\ genPc = "images"
    /\ LET all == PromiseAll(genImages)
       IN  /\ all.state # "pending"
           /\ IF all.state = "rejected"
              THEN /\ GenerationFailed(ImagesFailedMessage)
                   /\ UNCHANGED decks
              ELSE /\ genSlides' = FormattedSlides(all.values, decks + 1, genInput.activePreset,
                                                  genInput.globalStyles)
                   /\ decks' = decks + 1
                   /\ isLoading' = FALSE
                   /\ genPc' = "idle"
                   /\ UNCHANGED genError
    /\ UNCHANGED <<genInput, genImages, regens, regenLog, calls, imageSource, pexelsApiKey,
                   modalSlide, rendered, nonSessionVars>>

\* The render scheduled by a call that resumed is committed.
SessionRender ==
    /\ rendered # Committed
    /\ rendered' = Committed
    /\ UNCHANGED <<genSlides, isLoading, genError, genPc, genInput, genImages, decks, regens,
                   regenLog, calls, imageSource, pexelsApiKey, modalSlide, nonSessionVars>>

\* handleGenerateTest, from the Test button of the form (disabled while
\* isLoading).
GenerateTest ==
    /\ FormShown /\ ~rendered.isLoading
    /\ calls < MaxCalls
    /\ calls' = calls + 1
    /\ genSlides' = TestSlides(decks + 1, GlobalStylesValue(heap, appGlobal))
    /\ genError' = Null
    /\ decks' = decks + 1
    /\ rendered' = [slides |-> genSlides', isLoading |-> isLoading]
    /\ UNCHANGED <<isLoading, genPc, genInput, genImages, regens, regenLog, imageSource,
                   pexelsApiKey, modalSlide, nonSessionVars>>

\* handleStartOver, confirmed, from the editor panel: the slides, the error,
\* the styles and the logo are reset (the prompts it resets are read when
\* Generate is pressed).
StartOver ==
    /\ ~FormShown
    /\ calls < MaxCalls
    /\ calls' = calls + 1
    /\ genSlides' = <<>>
    /\ genError' = Null
    /\ ResetStyles
    /\ appLogo' = Null
    /\ rendered' = [slides |-> <<>>, isLoading |-> isLoading]
    /\ UNCHANGED <<isLoading, genPc, genInput, genImages, decks, regens, regenLog,
                   imageSource, pexelsApiKey, modalSlide>>
    /\ UNCHANGED <<heap, appSlides, presets, saved, lastApplied, presetOps, reads, nonAppVars>>

\* handleStyleChange(index, 'titleStyle', 'fontSize', value) of the panel
\* (TextEditorPanel.tsx 117-139): a copy of the slides prop of the panel's
\* render with one slide's style replaced, handed to handleSlidesUpdate of
\* App (146-149), which sets the whole list and clears the active preset.
SlidesUpdate(index) ==
    /\ calls < MaxCalls
    /\ calls' = calls + 1
    /\ LET newSlides ==
               [rendered.slides EXCEPT
                   ![index] = [@ EXCEPT !.titleStyle = [@ EXCEPT !.fontSize = EditedFontSize]]]
       IN  /\ genSlides' = newSlides
           /\ rendered' = [slides |-> newSlides, isLoading |-> isLoading]
    /\ activePresetId' = Null
    /\ UNCHANGED <<isLoading, genError, genPc, genInput, genImages, decks, regens, regenLog,
                   imageSource, pexelsApiKey, modalSlide>>
    /\ UNCHANGED <<heap, appSlides, appLogo, appLogoSize, appOverlay, appGlobal, presets, saved,
                   lastApplied, presetOps, reads, nonAppVars>>

\* currentSlides.map(s => s.id === slideId ? update(s) : s), with updated[k]
\* the update of the k-th slide.
MapSlide(currentSlides, slideId, updated) ==
    [k \in 1..Len(currentSlides) |->
        IF currentSlides[k].id = slideId THEN updated[k] ELSE currentSlides[k]]

\* { ...s, isLoading: true, error: undefined } for every slide.
MarkLoading(currentSlides) ==
    [k \in 1..Len(currentSlides) |->
        [currentSlides[k] EXCEPT !.isLoading = TRUE, !.error = Null]]

\* handleRegenerateImage up to its await, for a slide of the panel's render
\* (slides.findIndex finds it there).  The regenerate button of a slide is
\* rendered while the image source is AI and stays enabled while the slide
\* is loading.
RegenerateImage ==
    /\ imageSource = "ai"
    /\ calls < MaxCalls
    /\ calls' = calls + 1
    /\ \E k \in RegenTargets \cap 1..Len(rendered.slides) :
         LET n == 1 + Cardinality({ j \in 1..Len(regenLog) : regenLog[j].kind = "request" })
             request == [n |-> n, slideId |-> rendered.slides[k].id]
         IN  /\ genSlides' = MapSlide(genSlides, request.slideId, MarkLoading(genSlides))
             /\ regens' = regens \cup {request}
             /\ regenLog' = Append(regenLog, [kind |-> "request", n |-> n,
                                              slideId |-> request.slideId, ok |-> TRUE,
                                              during |-> genPc])
    /\ rendered' = [slides |-> genSlides', isLoading |-> isLoading]
    /\ UNCHANGED <<isLoading, genError, genPc, genInput, genImages, decks, imageSource,
                   pexelsApiKey, modalSlide, nonSessionVars>>

\* The success branch: the slide with the request's id takes the image.
ApplyRegenerated(currentSlides, request) ==
    MapSlide(currentSlides, request.slideId,
             [k \in 1..Len(currentSlides) |->
                 [currentSlides[k] EXCEPT !.src = [from |-> "regen", n |-> request.n],
                                          !.isLoading = FALSE]])

\* The catch branch.
ApplyRegenerationError(currentSlides, request) ==
    MapSlide(currentSlides, request.slideId,
             [k \in 1..Len(currentSlides) |->
                 [currentSlides[k] EXCEPT !.isLoading = FALSE, !.error = "generateImage failed"]])

\* generateImage answers one waiting call, in any order, and the call resumes:
\* its setSlides is applied to the state, the render comes later.
RegenerateSettles ==
    /\ \E request \in regens, ok \in BOOLEAN :
         /\ genSlides' = IF ok THEN ApplyRegenerated(genSlides, request)
                         ELSE ApplyRegenerationError(genSlides, request)
         /\ regens' = regens \ {request}
         /\ regenLog' = Append(regenLog, [kind |-> "response", n |-> request.n,
                                          slideId |-> request.slideId, ok |-> ok,
                                          during |-> genPc])
    /\ UNCHANGED <<isLoading, genError, genPc, genInput, genImages, decks, calls, imageSource,
                   pexelsApiKey, modalSlide, rendered, nonSessionVars>>

PexelsKeyRequiredMessage ==
    "Pexels API key is required to search for images. Please add it in the input field above."

\* handleOpenPexelsSearchModal(slide), from the Search button of a slide of
\* the panel's render, rendered while the image source is Pexels.
OpenPexelsSearchModal(index) ==
    /\ imageSource = "pexels"
    /\ calls < MaxCalls
    /\ calls' = calls + 1
    /\ IF trim(pexelsApiKey) = <<>>
       THEN /\ genError' = PexelsKeyRequiredMessage
            /\ UNCHANGED modalSlide
       ELSE /\ modalSlide' = rendered.slides[index].id
            /\ UNCHANGED genError
    /\ rendered' = Committed
    /\ UNCHANGED <<genSlides, isLoading, genPc, genInput, genImages, decks, regens, regenLog,
                   imageSource, pexelsApiKey, nonSessionVars>>

\* { ...s, src: imageUrl, isLoading: false, error: undefined } for every slide.
PickedImage(currentSlides) ==
    [k \in 1..Len(currentSlides) |->
        [currentSlides[k] EXCEPT !.src = [from |-> "pexels", n |-> 1],
                                 !.isLoading = FALSE, !.error = Null]]

\* handlePexelsImageSelect(slideId, imageUrl), from the modal, for the slide
\* the modal was opened for.
PexelsImageSelect ==
    /\ modalSlide # NullRecord
    /\ genSlides' = MapSlide(genSlides, modalSlide, PickedImage(genSlides))
    /\ modalSlide' = NullRecord
    /\ rendered' = [slides |-> genSlides', isLoading |-> isLoading]
    /\ UNCHANGED <<isLoading, genError, genPc, genInput, genImages, decks, regens, regenLog,
                   calls, imageSource, pexelsApiKey, nonSessionVars>>

\* onClose of the modal: setPexelsSearchModalSlide(null).
ClosePexelsSearchModal ==
    /\ modalSlide # NullRecord
    /\ modalSlide' = NullRecord
    /\ rendered' = Committed
    /\ UNCHANGED <<genSlides, isLoading, genError, genPc, genInput, genImages, decks, regens,
                   regenLog, calls, imageSource, pexelsApiKey, nonSessionVars>>

SessionNext ==
    \/ \E source \in {"ai", "pexels"} : SetImageSource(source)
    \/ \E key \in ApiKeys : SetPexelsApiKey(key)
    \/ FormResetToDefaultStyles
    \/ \E presetId \in {StoredPreset.id} : FormSelectPreset(presetId)
    \/ GenerateCarousel
    \/ PlanSettles
    \/ ImageSettles
    \/ GenerateResumes
    \/ SessionRender
    \/ GenerateTest
    \/ StartOver
    \/ \E index \in 1..Len(rendered.slides) : SlidesUpdate(index)
    \/ RegenerateImage
    \/ RegenerateSettles
    \/ \E index \in 1..Len(rendered.slides) : OpenPexelsSearchModal(index)
    \/ PexelsImageSelect
    \/ ClosePexelsSearchModal

SessionParked ==
    /\ genSlides = <<>>
    /\ isLoading = FALSE
    /\ genError = Null
    /\ genPc = "idle"
    /\ genInput = NullRecord
    /\ genImages = <<>>
    /\ decks = 0
    /\ regens = {}
    /\ regenLog = <<>>
    /\ calls = 0
    /\ imageSource = "ai"
    /\ pexelsApiKey = <<>>
    /\ modalSlide = NullRecord
    /\ rendered = Committed

(***************************************************************************)
(* Panel edits against regeneration responses: handleSlideUpdate,          *)
(* handleStyleChange, handleSlidesUpdate and handleRegenerateImage         *)
(***************************************************************************)
\* The panel's handlers are closures of the render that was last committed:
\* they read the slides prop of that render.  A setSlides made inside an
\* event handler is rendered before the next event; a setSlides made when
\* an awaited promise resumes is rendered later, in a task of its own, and
\* an input event can be handled first.

MaxRaceOps == 3 \* handler calls in one behaviour

\* A two-slide carousel as handleGenerateCarousel leaves it, with its texts.
RaceSlides ==
    [k \in 1..2 |->
        FormattedSlides({1, 2}, 1, NullRecord, DefaultGlobals)[k]
            @@ [title |-> "Planned", body |-> "Body"]]

RaceInit ==
    /\ liveSlides = RaceSlides
    /\ panelSlides = RaceSlides
    /\ inFlight = {}
    /\ raceLog = <<>>
    /\ raceOps = 0

\* handleSlidesUpdate(newSlides) of App, and the render that follows the event.
PanelSlidesChange(newSlides) ==
    /\ liveSlides' = newSlides
    /\ panelSlides' = newSlides

\* handleSlideUpdate(index, 'title', value) of the panel.
PanelSlideUpdate(index, value) ==
    /\ raceOps < MaxRaceOps
    /\ raceOps' = raceOps + 1
    /\ PanelSlidesChange([panelSlides EXCEPT ![index] = [@ EXCEPT !.title = value]])
    /\ raceLog' = Append(raceLog, [kind |-> "title", n |-> 0,
                                   slideId |-> panelSlides[index].id, ok |-> TRUE])
    /\ UNCHANGED <<inFlight, nonRaceVars>>

\* handleStyleChange(index, 'titleStyle', 'fontSize', value) of the panel.
PanelStyleChange(index, value) ==
    /\ raceOps < MaxRaceOps
    /\ raceOps' = raceOps + 1
    /\ PanelSlidesChange([panelSlides EXCEPT
                            ![index] = [@ EXCEPT !.titleStyle = [@ EXCEPT !.fontSize = value]]])
    /\ raceLog' = Append(raceLog, [kind |-> "fontSize", n |-> 0,
                                   slideId |-> panelSlides[index].id, ok |-> TRUE])
    /\ UNCHANGED <<inFlight, nonRaceVars>>

\* handleRegenerateImage(slideId) up to its await, called from the panel's
\* regenerate button, and the render that follows the event.
PanelRegenerate(index) ==
    /\ raceOps < MaxRaceOps
    /\ raceOps' = raceOps + 1
    /\ LET request == [n |-> raceOps + 1, slideId |-> panelSlides[index].id]
           marked == MapSlide(liveSlides, request.slideId, MarkLoading(liveSlides))
       IN  /\ liveSlides' = marked
           /\ panelSlides' = marked
           /\ inFlight' = inFlight \cup {request}
    /\ UNCHANGED <<raceLog, nonRaceVars>>

\* generateImage answers and handleRegenerateImage resumes: its setSlides
\* is applied to the state; the panel keeps the render it has.
ResponseLands ==
    /\ \E request \in inFlight, ok \in BOOLEAN :
         /\ liveSlides' = IF ok THEN ApplyRegenerated(liveSlides, request)
                          ELSE ApplyRegenerationError(liveSlides, request)
         /\ inFlight' = inFlight \ {request}
         /\ raceLog' = Append(raceLog, [kind |-> "response", n |-> request.n,
                                        slideId |-> request.slideId, ok |-> ok])
    /\ UNCHANGED <<panelSlides, raceOps, nonRaceVars>>

\* The render scheduled by a resumed call is committed.
Render ==
    /\ panelSlides # liveSlides
    /\ panelSlides' = liveSlides
    /\ UNCHANGED <<liveSlides, inFlight, raceLog, raceOps, nonRaceVars>>

RaceNext ==
    \/ \E index \in 1..Len(panelSlides) : PanelSlideUpdate(index, EditedTitle)
    \/ \E index \in 1..Len(panelSlides) : PanelStyleChange(index, EditedFontSize)
    \/ \E index \in 1..Len(panelSlides) : PanelRegenerate(index)
    \/ ResponseLands
    \/ Render

RaceParked ==
    /\ liveSlides = <<>>
    /\ panelSlides = <<>>
    /\ inFlight = {}
    /\ raceLog = <<>>
    /\ raceOps = 0

(***************************************************************************)
(* The compositor inlined in App (src/src/App.tsx, generateSlideCanvas)    *)
(* next to the shared one, on the same inputs and the same surface         *)
(***************************************************************************)
\* What createSlideCanvas has issued and how it settles once its image loads
\* have settled, on a surface and with image loads as told by e.
SharedCompositor(a, e) ==
    IF ~HasSrc(a.slide) \/ ~e.context
    THEN [result |-> "null", ops |-> <<>>]
    ELSE LET h == CanvasHeight(a.aspectRatio)
             scale == ScaleOf(a.previewWidth)
             lay == Layout(a.slide, scale, Fine(h, scale),
                           Fine(ReservedLogoHeight(a.logo, e.logoLoaded, a.logoSize), scale))
         IN  IF ~e.bgLoaded /\ e.brokenImageDraw = "throws"
             THEN [result |-> "rejected",
                   ops |-> FineOps(<< BackgroundOp(h, FALSE, "threw") >>, scale)]
             ELSE [result |-> "canvas",
                   ops |-> FineOps(<< BackgroundOp(h, e.bgLoaded, "nothing") >>
                                   \o OverlayOps(a.imageOverlay, h)
                                   \o LogoOps(a.logo, e.logoLoaded, a.logoSize), scale)
                           \o TextOps(a.slide, lay, e.hasRoundRect)]

\* App.tsx lines 645-668: title, body and CTA.  Line 664 calls ctx.roundRect
\* without testing for it: on a surface without roundRect the call throws a
\* TypeError and nothing after it runs.
InlinedTextOps(s, lay, hasRoundRect) ==
    LET scale == lay.scale
        titleStyle == scaleStyle(s.titleStyle, scale)
        bodyStyle == scaleStyle(s.bodyStyle, scale)
        ctaStyle == scaleStyle(s.cta.style, scale)
        bg == ScaledCtaBg(s.cta.background, scale)
        titleBottom == lay.startY + lay.titleMetrics.height
        bodyBottom == titleBottom + lay.scaledSpacing + lay.bodyMetrics.height
        ctaBlockY == bodyBottom + lay.ctaMarginTop
        ctaBlockX == CtaBlockX(s.cta.style.textAlign, lay.ctaBlockWidth, scale)
    IN  drawStyledTextLines(lay.titleMetrics.lines, 1, Fine(padding, scale), lay.startY,
                            titleStyle, Fine(outputSize, scale),
                            applyShadow(titleStyle.shadow), "title")
        \o drawStyledTextLines(lay.bodyMetrics.lines, 1, Fine(padding, scale),
                               titleBottom + lay.scaledSpacing,
                               bodyStyle, Fine(outputSize, scale),
                               applyShadow(bodyStyle.shadow), "body")
        \o (IF ~CtaPresent(s) THEN <<>>
            ELSE IF ~hasRoundRect
            THEN << [op |-> "roundRect", x |-> ctaBlockX, y |-> ctaBlockY,
                     width |-> lay.ctaBlockWidth, height |-> lay.ctaBlockHeight,
                     radius |-> bg.borderRadius, outcome |-> "threw"] >>
            ELSE << [op |-> "roundRect", x |-> ctaBlockX, y |-> ctaBlockY,
                     width |-> lay.ctaBlockWidth, height |-> lay.ctaBlockHeight,
                     radius |-> bg.borderRadius],
                    [op |-> "fill", fillStyle |-> bg.color, shadow |-> NoShadow] >>
                 \o drawStyledTextLines(lay.ctaLines, 1, Sum(ctaBlockX, bg.paddingX),
                                        ctaBlockY + bg.paddingY, ctaStyle,
                                        Fine(outputSize, scale),
                                        NoShadow, "cta"))

\* generateSlideCanvas (App.tsx 555-672): what it has issued and how it
\* settles once its image loads have settled.
InlinedCompositor(a, e) ==
    IF ~HasSrc(a.slide) \/ ~e.context
    THEN [result |-> "null", ops |-> <<>>]
    ELSE LET h == CanvasHeight(a.aspectRatio)
             scale == ScaleOf(a.previewWidth)
             lay == Layout(a.slide, scale, Fine(h, scale),
                           Fine(ReservedLogoHeight(a.logo, e.logoLoaded, a.logoSize), scale))
         IN  IF ~e.bgLoaded /\ e.brokenImageDraw = "throws"
             THEN [result |-> "rejected",
                   ops |-> FineOps(<< BackgroundOp(h, FALSE, "threw") >>, scale)]
             ELSE [result |-> IF CtaPresent(a.slide) /\ ~e.hasRoundRect
                              THEN "rejected" ELSE "canvas",
                   ops |-> FineOps(<< BackgroundOp(h, e.bgLoaded, "nothing") >>
                                   \o OverlayOps(a.imageOverlay, h)
                                   \o LogoOps(a.logo, e.logoLoaded, a.logoSize), scale)
                           \o InlinedTextOps(a.slide, lay, e.hasRoundRect)]

TwinSlides ==
    { MakeSlide("s1", src, ShortTitle, va, en, ctaText, "center") :
      src \in {Null, "blob:image"}, va \in {"top", "bottom"}, en \in BOOLEAN,
      ctaText \in {<<>>, ShopNow} }

\* The surfaces and image loads a run can meet.
TwinEnvs ==
    [context : BOOLEAN, bgLoaded : BOOLEAN, logoLoaded : BOOLEAN,
     brokenImageDraw : {"throws", "nothing"}, hasRoundRect : BOOLEAN]

TwinInit ==
    /\ twinArgs \in [slide : TwinSlides, logo : {Null, "data:logo"}, logoSize : {12},
                     imageOverlay : { o \in Overlays : o.opacity > 0 },
                     aspectRatio : AspectRatios, previewWidth : {360, 400, 1080}]
    /\ twinEnv \in { e \in TwinEnvs : e.bgLoaded => e.brokenImageDraw = "nothing" }
    /\ sharedRun = NullRecord
    /\ inlinedRun = NullRecord

\* A run from its call to its first await: without a src or without a 2D
\* context it has returned null, else it waits for document.fonts.load.
Called(a, e) ==
    IF ~HasSrc(a.slide) \/ ~e.context
    THEN [pc |-> "settled", result |-> "null", ops |-> <<>>]
    ELSE [pc |-> "fonts", result |-> "pending", ops |-> <<>>]

\* createSlideCanvas is called (canvasGenerator.ts 87-112).
RunShared ==
    /\ sharedRun = NullRecord
    /\ sharedRun' = Called(twinArgs, twinEnv)
    /\ UNCHANGED <<twinArgs, twinEnv, inlinedRun, nonTwinVars>>

\* Its font loads have settled: it starts its image loads (lines 112-126).
SharedFontsSettled ==
    /\ sharedRun # NullRecord
    /\ sharedRun.pc = "fonts"
    /\ sharedRun' = [sharedRun EXCEPT !.pc = "images"]
    /\ UNCHANGED <<twinArgs, twinEnv, inlinedRun, nonTwinVars>>

\* Its image loads have settled: it draws and settles (lines 126-248).
SharedImagesSettled ==
    /\ sharedRun # NullRecord
    /\ sharedRun.pc = "images"
    /\ sharedRun' = [pc |-> "settled",
                     result |-> SharedCompositor(twinArgs, twinEnv).result,
                     ops |-> SharedCompositor(twinArgs, twinEnv).ops]
    /\ UNCHANGED <<twinArgs, twinEnv, inlinedRun, nonTwinVars>>

\* generateSlideCanvas is called (App.tsx 555-579).
RunInlined ==
    /\ inlinedRun = NullRecord
    /\ inlinedRun' = Called(twinArgs, twinEnv)
    /\ UNCHANGED <<twinArgs, twinEnv, sharedRun, nonTwinVars>>

\* Its font loads have settled: it starts its image loads (App.tsx 579-589).
InlinedFontsSettled ==
    /\ inlinedRun # NullRecord
    /\ inlinedRun.pc = "fonts"
    /\ inlinedRun' = [inlinedRun EXCEPT !.pc = "images"]
    /\ UNCHANGED <<twinArgs, twinEnv, sharedRun, nonTwinVars>>

\* Its image loads have settled: it draws and settles (App.tsx 589-672).
InlinedImagesSettled ==
    /\ inlinedRun # NullRecord
    /\ inlinedRun.pc = "images"
    /\ inlinedRun' = [pc |-> "settled",
                      result |-> InlinedCompositor(twinArgs, twinEnv).result,
                      ops |-> InlinedCompositor(twinArgs, twinEnv).ops]
    /\ UNCHANGED <<twinArgs, twinEnv, sharedRun, nonTwinVars>>

\* Either run has settled.
Settled(run) == run # NullRecord /\ run.pc = "settled"

TwinNext ==
    \/ RunShared
    \/ SharedFontsSettled
    \/ SharedImagesSettled
    \/ RunInlined
    \/ InlinedFontsSettled
    \/ InlinedImagesSettled

\* The two compositors when another component is under study.
TwinParked ==
    /\ twinArgs = NullRecord
    /\ twinEnv = NullRecord
    /\ sharedRun = NullRecord
    /\ inlinedRun = NullRecord

(***************************************************************************)
(* The all-slides export, await by await                                   *)
(* (src/src/App.tsx, handleDownloadAllSlides)                              *)
(***************************************************************************)
\* Longest slide list and most exports the loop model runs.
MaxZipSlides == 3
MaxExports == 2

\* Line 697 as it would be if the composites were all started up front.
IssuedAllAtOnce(n, i) == i..n

\* Line 697: one generateSlideCanvas call per iteration, awaited before the
\* loop goes on.
Issued(n, i) == {i}

Event(ev, i, ok) == [ev |-> ev, i |-> i, ok |-> ok]

\* Lines 695-710: the loop arrives at index i.  Within the list it calls
\* generateSlideCanvas and waits; past the end it calls zip.generateAsync.
ArriveAt(run, r, i) ==
    IF i <= Len(zipSlides)
    THEN [run |-> [run EXCEPT !.pc = "compositing", !.i = i,
                              !.log = Append(@, Event("start", i, TRUE))],
          calls |-> { [run |-> r, index |-> j] : j \in Issued(Len(zipSlides), i) }]
    ELSE [run |-> [run EXCEPT !.pc = "finalizing", !.i = i,
                              !.log = Append(@, Event("finalize", 0, TRUE))],
          calls |-> {}]

ZipInit ==
    /\ zipSlides \in UNION { [1..n -> {Null, "blob:image"}] : n \in 0..MaxZipSlides }
    /\ zipRuns = <<>>
    /\ zipInFlight = {}

\* Lines 688-697: the handler is invoked (the button is not disabled while an
\* export runs).  An empty list returns at once.
StartExport ==
    /\ Len(zipRuns) < MaxExports
    /\ IF Len(zipSlides) = 0
       THEN /\ zipRuns' = Append(zipRuns, [pc |-> "returned", i |-> 0, files |-> <<>>, log |-> <<>>])
            /\ UNCHANGED zipInFlight
       ELSE LET next == ArriveAt([pc |-> "start", i |-> 0, files |-> <<>>, log |-> <<>>],
                                 Len(zipRuns) + 1, 1)
            IN  /\ zipRuns' = Append(zipRuns, next.run)
                /\ zipInFlight' = zipInFlight \cup next.calls
    /\ UNCHANGED <<zipSlides, nonZipVars>>

\* Lines 556-558, 671: what a generateSlideCanvas call can settle with.  A
\* slide without src gives null; with src the call gives null when the
\* canvas has no 2D context, else the canvas, or it rejects when a drawing
\* call throws.
CompositeOutcomes(slide) ==
    IF HasSrc(slide) THEN {"null", "canvas", "rejected"} ELSE {"null"}

\* Lines 697-699: a generateSlideCanvas call settles.  On null the loop
\* skips the slide and goes on; a canvas is handed to toBlob; a rejection
\* ends the handler.
CompositeSettles ==
    \E c \in zipInFlight :
    \E outcome \in CompositeOutcomes([src |-> zipSlides[c.index]]) :
        LET run == zipRuns[c.run]
            settled == [run EXCEPT !.log = Append(@, Event("composited", c.index,
                                                           outcome = "canvas"))]
        IN  /\ run.pc = "compositing"
            /\ IF outcome = "canvas"
               THEN /\ zipRuns' = [zipRuns EXCEPT ![c.run] = [settled EXCEPT !.pc = "encoding",
                                                                           !.i = c.index]]
                    /\ zipInFlight' = zipInFlight \ {c}
               ELSE IF outcome = "rejected"
               THEN /\ zipRuns' = [zipRuns EXCEPT ![c.run] = [settled EXCEPT !.pc = "failed"]]
                    /\ zipInFlight' = zipInFlight \ {c}
               ELSE LET next == ArriveAt(settled, c.run, c.index + 1)
                    IN  /\ zipRuns' = [zipRuns EXCEPT ![c.run] = next.run]
                        /\ zipInFlight' = (zipInFlight \ {c}) \cup next.calls
    /\ UNCHANGED <<zipSlides, nonZipVars>>

\* Lines 699-702: toBlob calls back, with a blob or with null; a blob is
\* added to the archive under the slide's number, and the loop goes on.
Encoded ==
    \E r \in 1..Len(zipRuns) : \E blob \in BOOLEAN :
        LET run == zipRuns[r]
            encoded == [run EXCEPT !.log = Append(@, Event("encoded", run.i, blob))]
            added == IF blob
                     THEN [encoded EXCEPT !.files = Append(@, run.i),
                                          !.log = Append(@, Event("added", run.i, TRUE))]
                     ELSE encoded
            next == ArriveAt(added, r, run.i + 1)
        IN  /\ run.pc = "encoding"
            /\ zipRuns' = [zipRuns EXCEPT ![r] = next.run]
            /\ zipInFlight' = zipInFlight \cup next.calls
    /\ UNCHANGED <<zipSlides, nonZipVars>>

\* Lines 707-716: the archive is generated and the download is triggered.
ArchiveReady ==
    \E r \in 1..Len(zipRuns) :
        /\ zipRuns[r].pc = "finalizing"
        /\ zipRuns' = [zipRuns EXCEPT ![r] = [@ EXCEPT !.pc = "saved",
                                                      !.log = Append(@, Event("saved", 0, TRUE))]]
    /\ UNCHANGED <<zipSlides, zipInFlight, nonZipVars>>

ZipNext == StartExport \/ CompositeSettles \/ Encoded \/ ArchiveReady

\* The export loop when another component is under study.
ZipParked ==
    /\ zipSlides = <<>>
    /\ zipRuns = <<>>
    /\ zipInFlight = {}

\*-- specifications --
InitText == TextInit /\ EditorParked /\ CanvasParked /\ ExportParked /\ ScaleParked /\ PresetParked /\ SessionParked
    /\ RaceParked
    /\ TwinParked
    /\ ZipParked

SpecText == InitText /\ [][TextNext]_vars

InitEditor == EditorInit /\ TextParked /\ CanvasParked /\ ExportParked /\ ScaleParked /\ PresetParked /\ SessionParked
    /\ RaceParked
    /\ TwinParked
    /\ ZipParked

SpecEditor == InitEditor /\ [][EditorNext]_vars

InitCanvas == CanvasInit /\ TextParked /\ EditorParked /\ ExportParked /\ ScaleParked /\ PresetParked /\ SessionParked
    /\ RaceParked
    /\ TwinParked
    /\ ZipParked

SpecCanvas == InitCanvas /\ [][CanvasNext]_vars

InitExport == ExportInit /\ TextParked /\ EditorParked /\ CanvasParked /\ ScaleParked /\ PresetParked /\ SessionParked
    /\ RaceParked
    /\ TwinParked
    /\ ZipParked

SpecExport == InitExport /\ [][ExportNext]_vars

InitScale == ScaleInit /\ TextParked /\ EditorParked /\ CanvasParked /\ ExportParked /\ PresetParked /\ SessionParked
    /\ RaceParked
    /\ TwinParked
    /\ ZipParked

SpecScale == InitScale /\ [][ScaleNext]_vars

InitPreset ==
    PresetInit /\ TextParked /\ EditorParked /\ CanvasParked /\ ExportParked /\ ScaleParked
    /\ SessionParked
    /\ RaceParked
    /\ TwinParked
    /\ ZipParked

SpecPreset == InitPreset /\ [][PresetNext]_vars

InitSession ==
    SessionInit /\ TextParked /\ EditorParked /\ CanvasParked /\ ExportParked /\ ScaleParked
    /\ SessionAppInit
    /\ RaceParked
    /\ TwinParked
    /\ ZipParked

SpecSession == InitSession /\ [][SessionNext]_vars

InitRace ==
    RaceInit
    /\ TextParked
    /\ EditorParked
    /\ CanvasParked
    /\ ExportParked
    /\ ScaleParked
    /\ PresetParked
    /\ SessionParked
    /\ TwinParked
    /\ ZipParked

SpecRace == InitRace /\ [][RaceNext]_vars

InitTwin ==
    TwinInit
    /\ TextParked
    /\ EditorParked
    /\ CanvasParked
    /\ ExportParked
    /\ ScaleParked
    /\ PresetParked
    /\ SessionParked
    /\ RaceParked
    /\ ZipParked

SpecTwin == InitTwin /\ [][TwinNext]_vars

InitZip ==
    ZipInit
    /\ TextParked
    /\ EditorParked
    /\ CanvasParked
    /\ ExportParked
    /\ ScaleParked
    /\ PresetParked
    /\ SessionParked
    /\ RaceParked
    /\ TwinParked

SpecZip == InitZip /\ [][ZipNext]_vars

(***************************************************************************)
(* Vocabulary of the text claims                                           *)
(***************************************************************************)
RECURSIVE Without(_, _)
Without(s, chars) ==
    IF s = <<>> THEN <<>>
    ELSE IF Head(s) \in chars THEN Without(Tail(s), chars)
    ELSE << Head(s) >> \o Without(Tail(s), chars)

CountChar(s, c) == Cardinality({ i \in 1..Len(s) : s[i] = c })

\* Number of words of s: the positions where a stretch of non-space
\* characters begins.
WordCount(s) ==
    Cardinality({ i \in 1..Len(s) : s[i] # " " /\ (i = 1 \/ s[i - 1] = " ") })

RECURSIVE SumOver(_, _, _)
SumOver(F(_), seq, k) == IF k > Len(seq) THEN 0 ELSE F(seq[k]) + SumOver(F, seq, k + 1)

FragmentWidth(fragment) == MeasureText(textFontSize, fragment.text)
LineWidth(line) == SumOver(FragmentWidth, line, 1)
RunWordCount(run) == WordCount(run.text)

\* The characters of a line, and of all lines with one "\n" per empty line.
RECURSIVE LineChars(_)
LineChars(line) == IF line = <<>> THEN <<>> ELSE Head(line).text \o LineChars(Tail(line))

RECURSIVE LinesChars(_)
LinesChars(lines) ==
    IF lines = <<>> THEN <<>>
    ELSE (IF Head(lines) = <<>> THEN << "\n" >> ELSE LineChars(Head(lines)))
         \o LinesChars(Tail(lines))

\* The characters of the runs, with one "\n" per break marker.
RECURSIVE RunsChars(_)
RunsChars(runs) ==
    IF runs = <<>> THEN <<>>
    ELSE (IF Head(runs).isNewline THEN << "\n" >> ELSE Head(runs).text)
         \o RunsChars(Tail(runs))

\* The markup a sequence of runs stands for: a highlighted run between two
\* asterisks, a break marker as a newline, a plain run as it is.
RECURSIVE Unparse(_)
Unparse(runs) ==
    IF runs = <<>> THEN <<>>
    ELSE (IF Head(runs).isNewline THEN << "\n" >>
          ELSE IF Head(runs).isHighlighted THEN << "*" >> \o Head(runs).text \o << "*" >>
          ELSE Head(runs).text)
         \o Unparse(Tail(runs))

\* Number of asterisks of s that have no closing asterisk after them on their
\* line (open = an asterisk of the current line is waiting for its partner).
\* A line ends at any line terminator.
RECURSIVE LoneAsterisks(_, _)
LoneAsterisks(s, open) ==
    IF s = <<>> THEN (IF open THEN 1 ELSE 0)
    ELSE IF Head(s) \in LineTerminators THEN (IF open THEN 1 ELSE 0) + LoneAsterisks(Tail(s), FALSE)
    ELSE IF Head(s) = "*" THEN LoneAsterisks(Tail(s), ~open)
    ELSE LoneAsterisks(Tail(s), open)

AsterisksPaired(s) == LoneAsterisks(s, FALSE) = 0

IsPlain(run) == ~run.isNewline /\ ~run.isHighlighted
IsHighlight(run) == ~run.isNewline /\ run.isHighlighted
CountRuns(runs, P(_)) == Cardinality({ k \in 1..Len(runs) : P(runs[k]) })
PlainAsterisks(run) == IF IsPlain(run) THEN CountChar(run.text, "*") ELSE 0

\* Words separated by single spaces, lines by newlines: with the asterisks
\* taken out, no space is at either end of the text, next to a newline or
\* next to another space.
SingleSpaced(s) ==
    LET t == Without(s, {"*"})
    IN  \A i \in 1..Len(t) :
            t[i] = " " => /\ i > 1 /\ i < Len(t)
                          /\ t[i - 1] \notin {" ", "\n"}
                          /\ t[i + 1] \notin {" ", "\n"}

\* A highlighted run that is one or more whole words with no space around them
\* inside the asterisks.
HighlightsWords(run) ==
    IsHighlight(run) => /\ run.text # <<>>
                        /\ Head(run.text) # " "
                        /\ run.text[Len(run.text)] # " "

AllFragmentChars(lines) == Without(LinesChars(lines), {"\n"})
IsBreak(run) == run.isNewline
HasWords(run) == ~run.isNewline /\ WordCount(run.text) > 0
NumFragments(line) == Len(line)

(***************************************************************************)
(* Claims about the markup parser and the layout engine (SpecText)         *)
(***************************************************************************)
\* C1: every line returned by getWrappedStyledTextMetrics has a summed
\* measured fragment width <= maxWidth or consists of exactly one fragment; a
\* fragment wider than maxWidth is alone on its line; and the fragments are
\* the words of the runs, one fragment per word, no character of a word
\* dropped (no word is split or truncated).
C1_WrapWithinWidth ==
    tpc = "wrapped" =>
        /\ \A k \in 1..Len(metrics.lines) :
               LET line == metrics.lines[k]
               IN  /\ Len(line) = 1 \/ LineWidth(line) <= maxWidth
                   /\ \A j \in 1..Len(line) :
                          FragmentWidth(line[j]) > maxWidth => Len(line) = 1
        /\ SumOver(NumFragments, metrics.lines, 1) = SumOver(RunWordCount, parsedText, 1)
        /\ Without(AllFragmentChars(metrics.lines), {" "})
               = Without(RunsChars(parsedText), {" ", "\n"})

\* C1 witness: a wrap in which a word wider than a positive maxWidth sits
\* alone on its line and the text went on to another line.
C1_Witness ==
    /\ tpc = "wrapped"
    /\ maxWidth > 0
    /\ Len(metrics.lines) >= 2
    /\ \E k \in 1..Len(metrics.lines) :
           Len(metrics.lines[k]) = 1 /\ LineWidth(metrics.lines[k]) > maxWidth

\* C2: for a text whose words are separated by single spaces (whose asterisks
\* pair up, around whole words), the fragments of all lines, concatenated in
\* order, are the text with only its asterisks and newlines removed: no space
\* is lost.
C2_NoSpaceLost ==
    (/\ tpc = "wrapped"
     /\ SingleSpaced(text)
     /\ AsterisksPaired(text)
     /\ \A k \in 1..Len(parsedText) : HighlightsWords(parsedText[k])) =>
        AllFragmentChars(metrics.lines) = Without(text, {"*", "\n"})

\* C3: in a text with an asterisk that has no closing asterisk after it on its
\* line, parseStyledText keeps every such asterisk verbatim inside a plain
\* run: the runs still spell the text, and the plain runs hold exactly the
\* lone asterisks.
C3_LoneAsteriskKept ==
    (tpc = "parsed" /\ LoneAsterisks(text, FALSE) > 0) =>
        /\ Unparse(parsedText) = text
        /\ SumOver(PlainAsterisks, parsedText, 1) = LoneAsterisks(text, FALSE)

\* C4: for a text whose asterisks pair up within each line, parseStyledText
\* returns in reading order one highlighted run per pair (asterisks stripped),
\* one plain run per non-empty stretch between pairs and one break marker per
\* newline; the empty text gives the empty sequence and "The Power of *Red*"
\* gives [plain "The Power of ", highlighted "Red"].
C4_PairedMarkupRuns ==
    (tpc = "parsed" /\ AsterisksPaired(text)) =>
        /\ Unparse(parsedText) = text
        /\ \A k \in 1..Len(parsedText) :
               LET run == parsedText[k]
               IN  /\ CountChar(run.text, "\n") = 0
                   /\ CountChar(run.text, "*") = 0
                   /\ IsPlain(run) => run.text # <<>>
                   /\ IsBreak(run) => run.text = <<>> /\ ~run.isHighlighted
                   /\ (k > 1 /\ IsPlain(run)) => ~IsPlain(parsedText[k - 1])
        /\ 2 * CountRuns(parsedText, IsHighlight) = CountChar(text, "*")
        /\ CountRuns(parsedText, IsBreak) = CountChar(text, "\n")
        /\ text = <<>> => parsedText = <<>>
        /\ text = PowerOfRed =>
               parsedText = << [text |-> SubSeq(PowerOfRed, 1, 13),
                                isHighlighted |-> FALSE, isNewline |-> FALSE],
                               [text |-> << "R", "e", "d" >>,
                                isHighlighted |-> TRUE, isNewline |-> FALSE] >>

\* C4 witness: a parsed text with paired asterisks that has a highlighted run,
\* a plain run and a break marker.
C4_Witness ==
    /\ tpc = "parsed"
    /\ AsterisksPaired(text)
    /\ CountRuns(parsedText, IsHighlight) > 0
    /\ CountRuns(parsedText, IsPlain) > 0
    /\ CountRuns(parsedText, IsBreak) > 0

\* C5: every break marker contributes exactly one zero-fragment line, and the
\* fragments keep their side of it: reading the lines in order, with each
\* empty line as a break, gives the words of the runs in order with the
\* breaks where the markers are.  So a text A, newline, B wraps to at least
\* two lines.
C5_BreaksSeparateLines ==
    tpc = "wrapped" =>
        /\ Cardinality({ k \in 1..Len(metrics.lines) : metrics.lines[k] = <<>> })
               = CountRuns(parsedText, IsBreak)
        /\ Without(LinesChars(metrics.lines), {" "}) = Without(RunsChars(parsedText), {" "})
        /\ (\E k \in 2..(Len(parsedText) - 1) :
                /\ IsBreak(parsedText[k])
                /\ HasWords(parsedText[k - 1])
                /\ HasWords(parsedText[k + 1]))
               => Len(metrics.lines) >= 2

\* C5 witness: a wrap with an empty line between two lines that hold fragments.
C5_Witness ==
    /\ tpc = "wrapped"
    /\ \E k \in 2..(Len(metrics.lines) - 1) :
           /\ metrics.lines[k] = <<>>
           /\ metrics.lines[k - 1] # <<>>
           /\ metrics.lines[k + 1] # <<>>

(***************************************************************************)
(* Claims about the text editor panel (SpecEditor)                         *)
(***************************************************************************)
\* The text of the field the observed toggles acted on.
ToggledText == slides[FindIndex(roundTrip.first.slideId)][roundTrip.first.field]

SecondToggleDone == roundTrip # NullRecord /\ roundTrip.second # NullRecord

\* C6 (as claimed): for every text and every non-empty selection, applying the
\* highlight toggle and then applying it again to the same characters gives
\* back the original text.  Stated for the selections that hold no asterisk,
\* where it already fails.
C6_ToggleRoundTrip ==
    (SecondToggleDone /\ CountChar(roundTrip.first.selected, "*") = 0) =>
        ToggledText = roundTrip.first.before

\* C6 (amended): the same, except when the selection is enclosed by two
\* asterisks on each side; the second application is to the range that holds
\* the selected characters after the first (one to the right after a wrap, one
\* to the left after an unwrap).
C6_ToggleRoundTripAmended ==
    (SecondToggleDone /\ ~roundTrip.first.enclosedTwice) =>
        ToggledText = roundTrip.first.before

\* C6 witness: a selection was wrapped in asterisks and a second application
\* to the same characters has removed them again.
C6_Witness ==
    /\ SecondToggleDone
    /\ roundTrip.first.wrapped
    /\ ~roundTrip.second.wrapped
    /\ ToggledText = roundTrip.first.before

\* ---- the compositor's claims (SpecCanvas) ----

HasOp(kind) == \E k \in 1..Len(ops) : ops[k].op = kind

DrewBlock(block) == \E k \in 1..Len(ops) : ops[k].op = "fillText" /\ ops[k].block = block

DrewLogo == \E k \in 1..Len(ops) : ops[k].op = "drawImage" /\ ops[k].image = "logo"

BackgroundFailed == cpc = "done" /\ HasSrc(args.slide) /\ env.background = "error"

\* C7: when the background image of a slide with a src fails to load, the
\* call still returns a canvas, with the overlay (when enabled and not fully
\* transparent), the logo (when it loaded) and the text blocks drawn; the
\* promise is never rejected because of the failed background.
C7_FailedBackgroundStillComposites ==
    BackgroundFailed =>
        /\ result = "canvas"
        /\ DrewBlock("title") /\ DrewBlock("body")
        /\ (args.imageOverlay.enabled /\ args.imageOverlay.opacity > 0) => HasOp("fillRect")
        /\ env.logo = "loaded" => DrewLogo

\* C8: a call on a slide whose src is null returns null, and up to its return
\* no drawing call is issued, no image load is started, no font is requested
\* (and no canvas is created).
C8_NullSrcDrawsNothing ==
    (cpc # "parked" /\ args.slide.src = Null) =>
        /\ ops = <<>>
        /\ requests = <<>>
        /\ canvas = NullRecord
        /\ cpc = "done" => result = "null"
        /\ cpc \in {"start", "done"}

\* A call on a slide without src has returned, and returned null.
C8_Witness == cpc = "done" /\ args.slide.src = Null /\ result = "null"

\* The layout of the same composite with the CTA switched off.
LayoutWithoutCta ==
    Layout([args.slide EXCEPT !.cta.enabled = FALSE], layout.scale,
           layout.canvasHeight, layout.reservedLogoHeight)

\* C10: totalTextHeight = titleHeight + scaledSpacing + bodyHeight when the CTA
\* is disabled or its text is empty; with the CTA enabled and its text
\* non-empty it is larger by exactly ctaMarginTop + ctaBlockHeight, and for
\* vertical alignment 'bottom' startY is smaller by exactly that amount than
\* without the CTA.
C10_CtaTermInTotalHeight ==
    layout # NullRecord =>
        LET base == layout.titleMetrics.height + layout.scaledSpacing + layout.bodyMetrics.height
            ctaTerm == layout.ctaMarginTop + layout.ctaBlockHeight
        IN  IF args.slide.cta.enabled /\ args.slide.cta.text # <<>>
            THEN /\ layout.totalTextHeight = base + ctaTerm
                 /\ ctaTerm > 0
                 /\ LayoutWithoutCta.totalTextHeight = base
                 /\ args.slide.layoutStyle.verticalAlign = "bottom"
                        => layout.startY = LayoutWithoutCta.startY - ctaTerm
            ELSE /\ layout.totalTextHeight = base
                 /\ layout.startY = LayoutWithoutCta.startY

\* A bottom-aligned slide with the CTA "Shop Now" has been composited at scale 2:
\* the pill is (18 x 2 x 1.4 + 2 x 12 x 2) px high under a (16 x 2) px margin.
C10_Witness ==
    /\ layout # NullRecord
    /\ result = "canvas"
    /\ args.slide.cta.enabled /\ args.slide.cta.text = ShopNow
    /\ args.slide.layoutStyle.verticalAlign = "bottom"
    /\ layout.scale = ScaleOf(540)
    /\ layout.ctaMarginTop = Px(32)
    /\ layout.ctaBlockHeight = (Px(36) * 14) \div 10 + Px(48)
    /\ HasOp("roundRect")

\* ---- the export drivers' claims (SpecExport) ----

RECURSIVE Flatten(_)
Flatten(pages) == IF pages = <<>> THEN <<>> ELSE Head(pages) \o Flatten(Tail(pages))

\* The composites an export holds, whatever it packaged them in.
RendersOf(export) == IF export.driver = "pdf" THEN Flatten(export.files) ELSE export.files

\* C9: for the same slide, logo, overlay and aspect ratio, the single-slide
\* export, the all-slides export and the document export composite the slide
\* at the same scale, hence with the same scaled font sizes, line breaks, block
\* heights and start Y.
C9_SameScaleAcrossExports ==
    \A a, b \in 1..Len(exports) :
        \A i \in 1..Len(RendersOf(exports[a])), j \in 1..Len(RendersOf(exports[b])) :
            LET ra == RendersOf(exports[a])[i].canvas
                rb == RendersOf(exports[b])[j].canvas
            IN  ra.slideId = rb.slideId =>
                    /\ ra.layout.scale = rb.layout.scale
                    /\ ra.layout.titleFontSize = rb.layout.titleFontSize
                    /\ ra.layout.bodyFontSize = rb.layout.bodyFontSize
                    /\ ra.layout.titleMetrics = rb.layout.titleMetrics
                    /\ ra.layout.bodyMetrics = rb.layout.bodyMetrics
                    /\ ra.layout.ctaBlockHeight = rb.layout.ctaBlockHeight
                    /\ ra.layout.totalTextHeight = rb.layout.totalTextHeight
                    /\ ra.layout.startY = rb.layout.startY

\* C11: for vertical alignment 'center', startY is the larger of
\* (canvasHeight - totalTextHeight) / 2 and reservedLogoHeight + padding, so the
\* top of the text stack (the first title line's y) is never above the bottom
\* of the reserved logo region plus the padding.
C11_CentreClampedBelowLogo ==
    (layout # NullRecord /\ args.slide.layoutStyle.verticalAlign = "center") =>
        LET floor == layout.reservedLogoHeight + Fine(padding, layout.scale)
            twiceCentred == layout.canvasHeight - layout.totalTextHeight
        IN  /\ layout.startY >= floor
            /\ 2 * layout.startY >= twiceCentred
            /\ layout.startY = floor \/ 2 * layout.startY = twiceCentred
            /\ \A k \in 1..Len(ops) : ops[k].op = "fillText" => ops[k].y >= floor

\* A centred stack too tall to be centred under the loaded logo: the clamp acts.
C11_Witness ==
    /\ layout # NullRecord
    /\ args.slide.layoutStyle.verticalAlign = "center"
    /\ layout.reservedLogoHeight > 0
    /\ 2 * (layout.reservedLogoHeight + Fine(padding, layout.scale))
          > layout.canvasHeight - layout.totalTextHeight
    /\ layout.startY = layout.reservedLogoHeight + Fine(padding, layout.scale)
    /\ DrewBlock("title")

\* ---- scaleStyle's claims (SpecScale) ----

UnscaledFieldsKept(a, b) ==
    /\ a.color = b.color
    /\ a.fontFamily = b.fontFamily
    /\ a.textAlign = b.textAlign
    /\ a.highlightColor = b.highlightColor
    /\ a.shadow.enabled = b.shadow.enabled
    /\ a.shadow.color = b.shadow.color

\* The scaled fields of a style.
ScaledFields(style) ==
    << style.fontSize, style.shadow.blur, style.shadow.offsetX, style.shadow.offsetY >>

\* d is a length of px whole px multiplied by 1080 / w: the product itself
\* when w divides 1080, and otherwise a number strictly between the
\* products by the two whole numbers around 1080 / w.
ScaledBy(px, w, d) ==
    IF px = 0 THEN d = Zero
    ELSE IF 1080 % w = 0 THEN d = DoubleOfNat(px * (1080 \div w))
    ELSE /\ Less(DoubleOfNat(px * (1080 \div w)), d)
         /\ Less(d, DoubleOfNat(px * ((1080 \div w) + 1)))

\* A power of two: the significand is its first bit alone.
PowerOfTwo(d) == d.m = ShiftLeft(<< 1 >>, SignificandBits - 1, 4)

\* C12: scaleStyle(style, f2) equals scaleStyle(scaleStyle(style, f1), f2 / f1)
\* on every field: font size, shadow blur and offsets are multiplied, colour,
\* alignment, font family, highlight colour and the shadow flag are unchanged.
C12_ScaleComposes ==
    scaleOut # NullRecord => scaleOut.direct = scaleOut.composed

\* C12, amended: scaleStyle leaves colour, alignment, font family, highlight
\* colour, shadow colour and shadow flag unchanged and multiplies font size,
\* shadow blur, offsetX and offsetY by the factor.  The two-step scaling
\* rounds three times (the first product, f2 / f1, the second product) where
\* the one-step scaling rounds once: each scaled field of the one is at
\* most three doubles away from the field of the other, and the two are
\* equal when f1 is a power of two or f1 = f2.
C12_ScaleComposesUpToRounding ==
    scaleOut # NullRecord =>
        LET st == scaleIn.style
            d == scaleOut.direct
            c == scaleOut.composed
        IN  /\ UnscaledFieldsKept(d, st) /\ UnscaledFieldsKept(c, st)
            /\ \A k \in 1..4 :
                   /\ ScaledBy(ScaledFields(st)[k], scaleIn.w2, ScaledFields(d)[k])
                   /\ WithinSteps(ScaledFields(d)[k], ScaledFields(c)[k], 3)
            /\ (PowerOfTwo(scaleOut.f1) \/ scaleOut.f1 = scaleOut.f2) => d = c

\* The body style (20 px) scaled by 2.7 is 54 px; scaled by 1.2 and then by
\* 2.7 / 1.2 it is 54.000000000000014 px, two doubles above 54, and its
\* shadow blur is 10.800000000000002 px, the double next to 10.8.
C12_Witness ==
    /\ scaleOut # NullRecord
    /\ scaleIn.w1 = 900 /\ scaleIn.w2 = 400
    /\ scaleIn.style.fontSize = 20
    /\ scaleOut.direct.fontSize = DoubleOfNat(54)
    /\ scaleOut.composed.fontSize = Above(DoubleOfNat(54), 2)
    /\ scaleOut.composed.shadow.blur = Successor(scaleOut.direct.shadow.blur)
    /\ scaleOut.composed.color = scaleIn.style.color

\* ---- the line height (SpecText) ----

RECURSIVE TotalFragments(_)
TotalFragments(lines) ==
    IF lines = <<>> THEN 0 ELSE Len(Head(lines)) + TotalFragments(Tail(lines))

C14_CanvasSizeByAspectRatio ==
    (cpc \in {"fonts", "images"} \/ (cpc = "done" /\ result \in {"canvas", "rejected"})) =>
        /\ canvas.width = Px(1080)
        /\ args.aspectRatio = "1:1" => canvas.height = Px(1080)
        /\ args.aspectRatio = "4:5" => canvas.height = Px(1440)

\* A portrait composite from a 360 px preview has been returned.
C14_Witness ==
    /\ cpc = "done" /\ result = "canvas"
    /\ args.aspectRatio = "4:5" /\ args.previewWidth = 360
    /\ canvas = [width |-> Px(1080), height |-> Px(1440)]
    /\ \E k \in 1..Len(ops) : ops[k].op = "drawImage" /\ ops[k].image = "background"
                                 /\ ops[k].height = Px(1440)

\* ---- the presets' claims (SpecPreset) ----

\* The elements of a are elements of b, in the same order.
RECURSIVE IsSubsequence(_, _)
IsSubsequence(a, b) ==
    IF a = <<>> THEN TRUE
    ELSE IF b = <<>> THEN FALSE
    ELSE IF Head(a) = Head(b) THEN IsSubsequence(Tail(a), Tail(b))
    ELSE IsSubsequence(a, Tail(b))

\* C15: after a preset is saved, no later slide text edit, style edit,
\* apply-styles-to-all, reorder, logo or overlay change (nor applying a preset)
\* alters any field of it: every preset holds the values it was saved with.
C15_SavedPresetUnaltered ==
    /\ Len(presets) <= Len(saved)
    /\ IsSubsequence([k \in 1..Len(presets) |-> PresetValue(heap, presets[k])], saved)

\* A preset was saved from the default styles; since then the first slide's
\* title size and the overlay opacity were edited, and the preset still holds
\* 42 px and 30 %.
C15_Witness ==
    /\ Len(presets) = 1
    /\ activePresetId = Null
    /\ heap[appSlides[1].titleStyle].fontSize = Px(48)
    /\ heap[appOverlay].opacity = 60
    /\ heap[presets[1].titleStyle].fontSize = Px(42)
    /\ heap[presets[1].imageOverlay].opacity = 30

\* The styles a call draws with are the scaled copies it built.
DrawsWithScaledCopies ==
    LET h == objects.heap
        scale == ScaleOf(args.previewWidth)
    IN  /\ [h[objects.scaled.titleStyle] EXCEPT !.shadow = h[@]]
               = scaleStyle(args.slide.titleStyle, scale)
        /\ [h[objects.scaled.bodyStyle] EXCEPT !.shadow = h[@]]
               = scaleStyle(args.slide.bodyStyle, scale)
        /\ [h[objects.scaled.ctaStyle] EXCEPT !.shadow = h[@]]
               = scaleStyle(args.slide.cta.style, scale)
        /\ h[objects.scaled.ctaBg] = ScaledCtaBg(args.slide.cta.background, scale)
        /\ objects.scaled.spacing = args.slide.layoutStyle.spacing * scale.num

\* C16: createSlideCanvas leaves its inputs unchanged: at every point of a
\* call the slide object, its titleStyle, bodyStyle, layoutStyle and cta (with
\* the style, the shadows and the background they refer to) and the overlay
\* object hold the values they held when the call was made, whatever the
\* scale; the scaled values are in objects of the call's own.
C16_InputsUnchanged ==
    /\ ArgValues(objects) = [slide |-> args.slide, imageOverlay |-> args.imageOverlay]
    /\ objects.scaled # NullRecord =>
           /\ DrawsWithScaledCopies
           /\ \A name \in {"titleStyle", "bodyStyle", "ctaStyle", "ctaBg"} :
                  /\ objects.scaled[name] > Len(ArgObjects(args).heap)
                  /\ name # "ctaBg" =>
                         objects.heap[objects.scaled[name]].shadow > Len(ArgObjects(args).heap)

\* A composite at scale 3 has been returned: the title was laid out at 126 px
\* with the call's own style object, and the slide's title style object still
\* says 42 px with its 8 px shadow blur.
C16_Witness ==
    /\ cpc = "done" /\ result = "canvas"
    /\ layout.scale = ScaleOf(360)
    /\ layout.titleFontSize = Px(126)
    /\ objects.heap[objects.scaled.titleStyle].fontSize = Px(126)
    /\ objects.heap[objects.heap[objects.slide].titleStyle].fontSize = Px(42)
    /\ objects.heap[objects.heap[objects.heap[objects.slide].titleStyle].shadow].blur = Px(8)
    /\ objects.heap[objects.heap[objects.heap[objects.slide].cta].background].paddingX = Px(24)
    /\ objects.heap[objects.heap[objects.slide].layoutStyle].spacing = Px(16)
    /\ objects.heap[objects.imageOverlay].opacity = 30

(***************************************************************************)
(* Vocabulary of the generation claims                                     *)
(***************************************************************************)
SomeImageFailed == \E i \in 1..Len(genImages) : genImages[i] \in {"rejected", "empty"}
SomeImageResolved == \E i \in 1..Len(genImages) : genImages[i] = "fulfilled"

\* C17: if the image of any one planned slide cannot be resolved, the whole
\* generation fails: the slide list is empty from the start of
\* handleGenerateCarousel until it finishes, and when it finishes after a
\* failed image the list is still empty, never a subset of the planned
\* slides, the error is set and isLoading is cleared.
C17_FailedImageFailsBatch ==
    [][/\ genPc' # "idle" => genSlides' = <<>>
       /\ (genPc = "images" /\ genPc' = "idle" /\ SomeImageFailed)
            => (genSlides' = <<>> /\ genError' = ImagesFailedMessage /\ ~isLoading')]_vars

\* A generation of two planned slides has finished after one image resolved
\* and the other did not; while it ran, the response to a regeneration asked
\* for a slide of the restored session arrived with an image.
C17_Witness ==
    /\ genPc = "idle" /\ ~isLoading
    /\ genError = ImagesFailedMessage
    /\ Len(genImages) = 2
    /\ SomeImageFailed /\ SomeImageResolved
    /\ \E j \in 1..Len(regenLog) :
         /\ regenLog[j].kind = "response" /\ regenLog[j].ok
         /\ regenLog[j].during = "images"
         /\ regenLog[j].slideId = SavedSlides[1].id
    /\ genSlides = <<>>
    /\ rendered.slides = <<>>

(***************************************************************************)
(* Vocabulary of the preset-application claims                             *)
(***************************************************************************)
\* handleApplyPreset was the last handler to run, and it found its preset.
JustApplied == lastApplied # NullRecord /\ lastApplied.at = presetOps

AppliedPreset == PresetValue(heap, presets[lastApplied.preset])

SlideBundle(k) == BundleValue(heap, appSlides[k])

\* Slide k received the preset's terminal bundle.
IsTerminal(k) == k = Len(appSlides) /\ AppliedPreset.lastSlideStyle # NullRecord

\* C18 as stated: after handleApplyPreset every non-terminal slide's
\* titleStyle, bodyStyle, layoutStyle and CTA (enabled flag, text, text
\* style, background) equal the preset's base bundle, and the terminal
\* slide's equal the preset's terminal bundle when the preset has one.
C18_SlidesEqualPresetBundles ==
    JustApplied =>
        \A k \in 1..Len(appSlides) :
            /\ k < Len(appSlides) => SlideBundle(k) = AppliedPreset.base
            /\ IsTerminal(k) => SlideBundle(k) = AppliedPreset.lastSlideStyle

\* C18 amended: after handleApplyPreset the terminal slide's four style
\* objects equal the preset's terminal bundle when the preset has one; every
\* other slide's titleStyle, bodyStyle, layoutStyle, CTA text style and CTA
\* background equal the preset's base bundle, while its CTA enabled flag and
\* CTA text are the slide's own, as they were before the call.
C18_BaseStylesKeepOwnCtaContent ==
    JustApplied =>
        \A k \in 1..Len(appSlides) :
            IF IsTerminal(k)
            THEN SlideBundle(k) = AppliedPreset.lastSlideStyle
            ELSE SlideBundle(k) =
                    [AppliedPreset.base EXCEPT
                        !.cta.enabled = lastApplied.before[k].enabled,
                        !.cta.text = lastApplied.before[k].text]

\* A preset with a terminal bundle was applied to two slides, and the first
\* slide kept a CTA flag that differs from the preset's base CTA.
C18_Witness ==
    /\ JustApplied
    /\ Len(appSlides) = 2
    /\ AppliedPreset.lastSlideStyle # NullRecord
    /\ SlideBundle(2) = AppliedPreset.lastSlideStyle
    /\ SlideBundle(1).titleStyle = AppliedPreset.base.titleStyle
    /\ SlideBundle(1).cta.enabled # AppliedPreset.base.cta.enabled

(***************************************************************************)
(* Vocabulary of the CTA drawing claim                                     *)
(***************************************************************************)
\* The drawing calls of the pill (roundRect or its rect fallback) and of the
\* CTA text.
PillOps == { k \in 1..Len(ops) : ops[k].op \in {"roundRect", "rect"} }
CtaTextOps == { k \in 1..Len(ops) : ops[k].op = "fillText" /\ ops[k].block = "cta" }

\* C19: for each CTA alignment (left, center, right), every CTA text fragment
\* is drawn horizontally inside the pill, inset by the pill's padding: its
\* left edge is at or right of pillX + paddingX and its right edge is at or
\* left of pillX + pillWidth - paddingX.
C19_CtaTextInsidePill ==
    (cpc = "done" /\ result = "canvas") =>
        \A p \in PillOps, t \in CtaTextOps :
            LET paddingX == ScaledCtaBg(args.slide.cta.background, layout.scale).paddingX
            IN  /\ ops[t].x >= ops[p].x + paddingX
                /\ ops[t].x + ops[t].width <= ops[p].x + ops[p].width - paddingX

(***************************************************************************)
(* Vocabulary of the regeneration claim                                    *)
(***************************************************************************)
\* The positions in regenLog of the successful responses for a slide.
Landed(slideId) ==
    { j \in 1..Len(regenLog) :
        regenLog[j].kind = "response" /\ regenLog[j].ok /\ regenLog[j].slideId = slideId }

LastOf(positions) == CHOOSE j \in positions : \A i \in positions : i <= j

\* Two regenerations of the slide overlapped: the second was asked for
\* before the first was answered.
Overlapped(slideId) ==
    \E i, j \in 1..Len(regenLog) :
        /\ i < j
        /\ regenLog[i].kind = "request" /\ regenLog[i].slideId = slideId
        /\ regenLog[j].kind = "request" /\ regenLog[j].slideId = slideId
        /\ \A r \in i..j : ~(regenLog[r].kind = "response" /\ regenLog[r].n = regenLog[i].n)

\* No regeneration of the slide is waiting for its response.
AllAnswered(slideId) == \A request \in regens : request.slideId # slideId

\* C20: when two regenerations of a slide overlapped, the slide's final src,
\* once every response has arrived, is the image of the response that
\* arrived last for it, whatever the order in which the requests were
\* issued: no response is discarded as stale.
C20_LastResponseWins ==
    \A k \in 1..Len(genSlides) :
        (/\ Overlapped(genSlides[k].id)
         /\ AllAnswered(genSlides[k].id)
         /\ Landed(genSlides[k].id) # {}) =>
            genSlides[k].src = [from |-> "regen", n |-> regenLog[LastOf(Landed(genSlides[k].id))].n]

\* C21: a slide's isLoading flag is true in every state in which at least
\* one regeneration request for that slide is still waiting for its response,
\* also when several regenerations of the slide overlap and one of them has
\* already completed or failed.
C21_LoadingWhileInFlight ==
    \A request \in regens :
        \A k \in 1..Len(genSlides) :
            genSlides[k].id = request.slideId => genSlides[k].isLoading

(***************************************************************************)
(* Vocabulary of the edit-against-response claim                           *)
(***************************************************************************)
\* The positions in raceLog of the entries of one kind for a slide.
RaceEntries(kind, slideId) ==
    { j \in 1..Len(raceLog) : raceLog[j].kind = kind /\ raceLog[j].slideId = slideId }

\* Every response for the slide has arrived, at least one with an image.
ResponsesApplied(slideId) ==
    /\ \A request \in inFlight : request.slideId # slideId
    /\ \E j \in RaceEntries("response", slideId) : raceLog[j].ok

LastImage(slideId) ==
    LET okOnes == { j \in RaceEntries("response", slideId) : raceLog[j].ok }
    IN  [from |-> "regen", n |-> raceLog[LastOf(okOnes)].n]

\* C22: a text or style edit of a slide that interleaves with the arrival
\* of a regeneration response for that slide discards neither: once both
\* have been applied the slide holds the edited text or style and the new
\* image, and its isLoading is false.
C22_EditAndResponseBothKept ==
    \A k \in 1..Len(liveSlides) :
        LET slide == liveSlides[k]
        IN  ResponsesApplied(slide.id) =>
              /\ RaceEntries("title", slide.id) # {} =>
                   (slide.title = EditedTitle /\ slide.src = LastImage(slide.id)
                    /\ ~slide.isLoading)
              /\ RaceEntries("fontSize", slide.id) # {} =>
                   (slide.titleStyle.fontSize = EditedFontSize
                    /\ slide.src = LastImage(slide.id) /\ ~slide.isLoading)

(***************************************************************************)
(* Vocabulary of the document claims                                       *)
(***************************************************************************)
\* The positions of the slides that composite to a canvas, and the k-th of
\* them in list order.
Composited == { i \in 1..Len(deck.slides) : ~ReturnsNullAtOnce(deck.slides[i], exportEnv) }

PdfExports == { k \in 1..Len(exports) : exports[k].driver = "pdf" }

\* C23: the document generatePDF produces has exactly one page per slide
\* that composited to a canvas, each page carries exactly one slide image,
\* in slide order, and no page is blank, whichever slides lack a resolved
\* image (the first included).
C23_OnePagePerCompositedSlide ==
    \A e \in PdfExports :
        LET pages == exports[e].files
        IN  /\ Len(pages) = Cardinality(Composited)
            /\ \A p \in 1..Len(pages) :
                   /\ Len(pages[p]) = 1
                   /\ pages[p][1].number = Nth(Composited, p)

\* C24: for both aspect settings ('1:1' and '4:5') the page generatePDF
\* creates has the same width-to-height ratio as the canvas createSlideCanvas
\* returns, so the image placed on the whole page is not stretched.
C24_PageRatioIsCanvasRatio ==
    \A e \in PdfExports :
        \A p \in 1..Len(exports[e].files) :
            \A i \in 1..Len(exports[e].files[p]) :
                LET c == exports[e].files[p][i].canvas
                IN  exports[e].page.width * c.height = exports[e].page.height * c.width

(***************************************************************************)
(* Vocabulary of the stacking claim                                        *)
(***************************************************************************)
\* The y of the first line drawn of a text block.
BlockOps(block) == { k \in 1..Len(ops) : ops[k].op = "fillText" /\ ops[k].block = block }

BlockTop(block) ==
    LET top == CHOOSE k \in BlockOps(block) : \A j \in BlockOps(block) : ops[k].y <= ops[j].y
    IN  ops[top].y

\* C25: title, body and CTA are drawn as one contiguous stack: the title's
\* top is startY, the body's top is the title's top + titleHeight +
\* scaledSpacing, the pill's top is the body's bottom + ctaMarginTop, and
\* the bottom of the last drawn block is startY + totalTextHeight, which
\* for alignment 'bottom' is canvasHeight - padding.
C25_BlocksAreOneStack ==
    (cpc = "done" /\ result = "canvas") =>
        LET titleTop == BlockTop("title")
            bodyTop == BlockTop("body")
            bodyBottom == bodyTop + layout.bodyMetrics.height
            stackBottom == IF PillOps = {} THEN bodyBottom
                           ELSE LET p == CHOOSE k \in PillOps : TRUE
                                IN  ops[p].y + ops[p].height
        IN  /\ titleTop = layout.startY
            /\ bodyTop = titleTop + layout.titleMetrics.height + layout.scaledSpacing
            /\ \A p \in PillOps : ops[p].y = bodyBottom + layout.ctaMarginTop
            /\ \A t \in CtaTextOps : \A p \in PillOps :
                   ops[t].y >= ops[p].y /\ ops[t].y < ops[p].y + ops[p].height
            /\ stackBottom = layout.startY + layout.totalTextHeight
            /\ args.slide.layoutStyle.verticalAlign = "bottom" =>
                   stackBottom = layout.canvasHeight - Fine(padding, layout.scale)

\* A three-line title, the body and the pill, bottom-aligned on a portrait
\* canvas at scale 2: the pill ends 54 px above the canvas's bottom edge.
C25_Witness ==
    /\ cpc = "done" /\ result = "canvas"
    /\ args.slide.layoutStyle.verticalAlign = "bottom"
    /\ args.aspectRatio = "4:5" /\ layout.scale = ScaleOf(540)
    /\ Len(layout.titleMetrics.lines) >= 3
    /\ \E p \in PillOps : ops[p].y + ops[p].height = Px(1440) - padding
    /\ BlockTop("body") > BlockTop("title") + layout.titleMetrics.height

\* The fill of the pill (the op after the rect or roundRect).
PillFillOps == { k \in 1..Len(ops) : ops[k].op = "fill" }

ShadowOff(shadow) ==
    shadow.color = "transparent" /\ shadow.blur = 0 /\ shadow.offsetX = 0 /\ shadow.offsetY = 0

\* C26: the pill and every CTA text line are drawn with the shadow disabled,
\* whatever the CTA style's shadow flag, and a returned canvas's context has
\* its shadow disabled and global alpha 1, whatever the title, body and
\* overlay settings.
C26_ShadowOffForCtaAndAtReturn ==
    (cpc = "done" /\ result = "canvas") =>
        /\ \A k \in PillFillOps \cup CtaTextOps : ShadowOff(ops[k].shadow)
        /\ ShadowOff(ctx.shadow)
        /\ ctx.globalAlpha = 100

\* A CTA whose style asks for a shadow, on a slide with the 30 % overlay and
\* the shadowed default title: the overlay was painted at alpha 0.3, the
\* title with its shadow, and the pill and CTA text were drawn.
C26_Witness ==
    /\ cpc = "done" /\ result = "canvas"
    /\ args.slide.cta.style.shadow.enabled
    /\ PillFillOps # {} /\ CtaTextOps # {}
    /\ \E k \in 1..Len(ops) : ops[k].op = "fillRect" /\ ops[k].globalAlpha = 30
    /\ \E k \in BlockOps("title") : ~ShadowOff(ops[k].shadow)

\* The measured widths of the CTA lines, as line 176 measures them.
CtaLineWidths ==
    { MeasureText(scaleStyle(args.slide.cta.style, layout.scale).fontSize,
                  JoinLine(layout.ctaLines[k])) : k \in 1..Len(layout.ctaLines) }

\* C27: whenever the pill is drawn, its width is the widest CTA line's
\* measured width + 2 x paddingX, a finite number >= 2 x paddingX, and its
\* height is the CTA text height + 2 x paddingY, for every CTA text.
C27_PillSizeFromText ==
    (cpc = "done" /\ result = "canvas") =>
        \A p \in PillOps :
            LET bg == ScaledCtaBg(args.slide.cta.background, layout.scale)
                lineHeight == LineHeight(scaleStyle(args.slide.cta.style, layout.scale).fontSize)
            IN  /\ \E w \in CtaLineWidths :
                       /\ \A v \in CtaLineWidths : v <= w
                       /\ ops[p].width = w + bg.paddingX * 2
                /\ ops[p].width # NegInfinity
                /\ ops[p].width >= bg.paddingX * 2
                /\ ops[p].height = Len(layout.ctaLines) * lineHeight + bg.paddingY * 2

\* ---- preview against export (SpecText) ----

\* The characters a sequence of parts shows, each with its highlight mark.  A
\* line break has no colour: it counts as shown and unmarked.
PartMarks(part) ==
    [j \in 1..Len(part.text) |->
        [char |-> part.text[j],
         highlighted |-> part.isHighlighted /\ part.text[j] # "\n"]]

RECURSIVE PreviewMarks(_)
PreviewMarks(parts) ==
    IF parts = <<>> THEN <<>> ELSE PartMarks(Head(parts)) \o PreviewMarks(Tail(parts))

RECURSIVE ExportMarks(_)
ExportMarks(runs) ==
    IF runs = <<>> THEN <<>>
    ELSE (IF Head(runs).isNewline THEN << [char |-> "\n", highlighted |-> FALSE] >>
          ELSE PartMarks(Head(runs)))
         \o ExportMarks(Tail(runs))

\* C28: for every text the preview (renderHighlightedText) and the export
\* parser (parseStyledText) show the same characters and mark the same ones
\* as highlighted, also with an odd number of asterisks or with asterisks
\* separated by a newline.
C28_PreviewMatchesExport ==
    tpc = "parsed" => ExportMarks(parsedText) = PreviewMarks(renderHighlightedText(text))

\* ---- the two compositors (SpecTwin) ----

\* C29: generateSlideCanvas and createSlideCanvas issue the same sequence of
\* drawing operations with the same coordinates and return the same result,
\* for every slide, logo, overlay, aspect ratio, preview width and drawing
\* surface, one without roundRect included.
C29_InlinedSameAsShared ==
    (Settled(sharedRun) /\ Settled(inlinedRun)) => inlinedRun = sharedRun

\* ---- the all-slides export loop (SpecZip) ----

\* Positions of an export's log that hold the event.
LogAt(r, ev, i) ==
    { p \in 1..Len(zipRuns[r].log) : zipRuns[r].log[p].ev = ev /\ zipRuns[r].log[p].i = i }

\* Slide i of export r was finished before position p of its log: its
\* composite settled and, when it gave a canvas, the canvas was encoded and,
\* when that gave a blob, the blob was added to the archive.
FinishedBefore(r, i, p) ==
    LET log == zipRuns[r].log
    IN  \E c \in LogAt(r, "composited", i) :
            /\ c < p
            /\ log[c].ok =>
                   \E e \in LogAt(r, "encoded", i) :
                       /\ c < e /\ e < p
                       /\ log[e].ok => \E a \in LogAt(r, "added", i) : e < a /\ a < p

\* C30: in an all-slides export at most one composite is in flight; slide
\* i+1's composite starts only after slide i was composited, encoded and
\* added; slides are taken in list order; the archive is finalized only
\* after the last slide.
C30_OneCompositeAtATime ==
    \A r \in 1..Len(zipRuns) :
        LET log == zipRuns[r].log
            starts == SelectSeq(log, LAMBDA e : e.ev = "start")
        IN  /\ Cardinality({ c \in zipInFlight : c.run = r }) <= 1
            /\ \A k \in 1..Len(starts) : starts[k].i = k
            /\ \A p \in 1..Len(log) :
                   /\ (log[p].ev = "start" /\ log[p].i > 1) => FinishedBefore(r, log[p].i - 1, p)
                   /\ log[p].ev = "finalize" =>
                          /\ \A i \in 1..Len(zipSlides) : FinishedBefore(r, i, p)
                          /\ \A q \in 1..Len(log) : q > p => log[q].ev = "saved"
            /\ \A k \in 1..Len(zipRuns[r].files) :
                   k > 1 => zipRuns[r].files[k - 1] < zipRuns[r].files[k]

\* Two exports of three slides with images run side by side: one has saved
\* its archive of three files, the other is waiting for its second slide.
C30_Witness ==
    /\ Len(zipSlides) = 3
    /\ Len(zipRuns) = 2
    /\ \E r \in 1..2 : zipRuns[r].pc = "saved" /\ zipRuns[r].files = << 1, 2, 3 >>
    /\ \E r \in 1..2 : zipRuns[r].pc = "compositing" /\ zipRuns[r].i = 2
                       /\ [run |-> r, index |-> 2] \in zipInFlight

=============================================================================
